---- MODULE Spec2Model ----
(***************************************************************************)
(* Buraco rule engine: deck, meld validator, round state machine, scoring. *)
(* Cards are identified by their id (an index into Deck); every operator   *)
(* that the JavaScript applies to card objects is applied here to ids and  *)
(* reads rank, suit and value through Deck.                                *)
(***************************************************************************)
EXTENDS Integers, Sequences, FiniteSets, TLC

(***************************************************************************)
(* Bounds of the model.                                                    *)
(***************************************************************************)
\* Largest number of card ids passed to playMeld / extendMeld in one call.
MaxIds == 3
\* Largest turnCount explored (turnCount grows without bound in the code).
MaxTurns == 1

(***************************************************************************)
(* Deck.js                                                                 *)
(***************************************************************************)
RANKS == <<"A", "2", "3", "4", "5", "6", "7", "8", "9", "10", "J", "Q", "K">>

\* order.indexOf(rank): 0-based, -1 for a rank that is not in the order (JOKER).
getRankIndex(rank) ==
    IF \E i \in 1..Len(RANKS) : RANKS[i] = rank
    THEN (CHOOSE i \in 1..Len(RANKS) : RANKS[i] = rank) - 1
    ELSE -1

CARD_VALUES(rank) ==
    IF rank \in {"JOKER", "A", "K", "Q", "J", "10"} THEN 10 ELSE 5

\* createCard(suit, rank, deckIndex): the card objects the modelled rounds are
\* dealt from.  The id of a card is its position in this table, so ids are
\* unique as `${suit}-${rank}-${deckIndex}` is.
createCard(suit, rank) == [suit |-> suit, rank |-> rank, value |-> CARD_VALUES(rank)]

Deck ==
    << createCard("spades", "3"),     \*  1
       createCard("spades", "4"),     \*  2
       createCard("spades", "5"),     \*  3
       createCard("spades", "6"),     \*  4
       createCard("spades", "7"),     \*  5
       createCard("spades", "8"),     \*  6
       createCard("diamonds", "K"),   \*  7
       createCard("diamonds", "9"),   \*  8
       createCard("diamonds", "10"),  \*  9
       createCard("diamonds", "J"),   \* 10
       createCard("diamonds", "Q"),   \* 11
       createCard("clubs", "9"),      \* 12
       createCard("clubs", "2"),      \* 13
       createCard("hearts", "6"),     \* 14
       createCard("hearts", "4"),     \* 15
       createCard("hearts", "5"),     \* 16
       createCard("joker", "JOKER"),  \* 17
       createCard("joker", "JOKER"),  \* 18
       createCard("hearts", "7"),     \* 19
       createCard("diamonds", "7"),   \* 20
       createCard("clubs", "7"),      \* 21
       createCard("hearts", "9"),     \* 22
       createCard("diamonds", "A"),   \* 23
       createCard("diamonds", "2"),   \* 24
       createCard("hearts", "7"),     \* 25, the 7 of hearts of another deck
       createCard("diamonds", "7"),   \* 26, the 7 of diamonds of another deck
       createCard("clubs", "7"),      \* 27, the 7 of clubs of another deck
       createCard("spades", "9"),     \* 28
       createCard("spades", "10"),    \* 29
       createCard("spades", "J"),     \* 30
       createCard("hearts", "3"),     \* 31
       createCard("hearts", "8"),     \* 32
       createCard("hearts", "K"),     \* 33
       createCard("clubs", "K"),      \* 34
       createCard("spades", "K"),     \* 35
       createCard("hearts", "A"),     \* 36
       createCard("clubs", "A"),      \* 37
       createCard("spades", "Q"),     \* 38
       createCard("diamonds", "5")    \* 39
    >>

CardIds == 1..Len(Deck)
\* An id that no card carries: what hand.find / findIndex does with an id that
\* is not in the hand does not depend on which absent id it is.
NoCard == 0

rankOf(c) == Deck[c].rank
suitOf(c) == Deck[c].suit

calculateCardsValue(cards) ==
    LET RECURSIVE sum(_)
        sum(i) == IF i > Len(cards) THEN 0 ELSE Deck[cards[i]].value + sum(i + 1)
    IN sum(1)

(***************************************************************************)
(* Array helpers (Array.prototype.filter / sort / findIndex / splice).     *)
(***************************************************************************)
Min2(a, b) == IF a < b THEN a ELSE b
Max2(a, b) == IF a > b THEN a ELSE b

\* Stable sort of a sequence by an integer key (Array.prototype.sort with
\* the comparator (a, b) => key(a) - key(b)).
sortBy(s, key(_)) ==
    LET RECURSIVE ins(_, _)
        ins(x, t) == IF t = <<>> THEN <<x>>
                     ELSE IF key(t[Len(t)]) <= key(x) THEN Append(t, x)
                     ELSE Append(ins(x, SubSeq(t, 1, Len(t) - 1)), t[Len(t)])
        RECURSIVE go(_, _)
        go(i, acc) == IF i > Len(s) THEN acc ELSE go(i + 1, ins(s[i], acc))
    IN go(1, <<>>)

\* findIndex(c => c.id === id): 1-based position of the first match, 0 if none.
findIndex(s, id) ==
    IF \E i \in 1..Len(s) : s[i] = id
    THEN CHOOSE i \in 1..Len(s) : s[i] = id /\ \A j \in 1..(i - 1) : s[j] # id
    ELSE 0

removeAt(s, i) == SubSeq(s, 1, i - 1) \o SubSeq(s, i + 1, Len(s))

(***************************************************************************)
(* MeldValidator                                                           *)
(***************************************************************************)
isWildCard(card) == rankOf(card) = "JOKER"
isNatural(card) == rankOf(card) # "JOKER"

Invalid(reason) ==
    [valid |-> FALSE, type |-> "none", rank |-> "none", suit |-> "none",
     isClean |-> FALSE, isBurraco |-> FALSE, reason |-> reason]

\* A faulty validateSet: no upper limit on the number of cards.
validateSetAnyLength(cards) ==
    LET wilds == SelectSeq(cards, isWildCard)
        naturals == SelectSeq(cards, isNatural)
    IN IF Len(cards) < 3 THEN Invalid("Set must have at least 3 cards")
       ELSE IF Len(wilds) > 1 THEN Invalid("Set can have at most 1 wild card")
       ELSE IF Len(naturals) = 0
            THEN Invalid("Set cannot consist entirely of wild cards")
       ELSE IF ~(\A i \in 1..Len(naturals) : rankOf(naturals[i]) = rankOf(naturals[1]))
            THEN Invalid("All cards in a set must be the same rank")
       ELSE [valid |-> TRUE, type |-> "set", rank |-> rankOf(naturals[1]),
             suit |-> "none", isClean |-> Len(wilds) = 0,
             isBurraco |-> Len(cards) >= 7, reason |-> "none"]

validateSet(cards) ==
    LET wilds == SelectSeq(cards, isWildCard)
        naturals == SelectSeq(cards, isNatural)
    IN IF Len(cards) < 3 THEN Invalid("Set must have at least 3 cards")
       ELSE IF Len(cards) > 7 THEN Invalid("Meld cannot have more than 7 cards")
       ELSE IF Len(wilds) > 1 THEN Invalid("Set can have at most 1 wild card")
       ELSE IF Len(naturals) = 0
            THEN Invalid("Set cannot consist entirely of wild cards")
       ELSE IF ~(\A i \in 1..Len(naturals) : rankOf(naturals[i]) = rankOf(naturals[1]))
            THEN Invalid("All cards in a set must be the same rank")
       ELSE [valid |-> TRUE, type |-> "set", rank |-> rankOf(naturals[1]),
             suit |-> "none", isClean |-> Len(wilds) = 0,
             isBurraco |-> Len(cards) >= 7, reason |-> "none"]

\* The sorted rank positions of the naturals, with the first Ace moved to 13
\* when aceHigh holds (positions.find(...).idx = 13; positions.sort(...)).
acePositions(naturals, aceHigh) ==
    LET idx == [i \in 1..Len(naturals) |-> getRankIndex(rankOf(naturals[i]))]
        firstAce(i) == idx[i] = 0 /\ \A j \in 1..(i - 1) : idx[j] # 0
    IN sortBy([i \in 1..Len(naturals) |->
                 IF aceHigh /\ firstAce(i) THEN 13 ELSE idx[i]],
              LAMBDA x : x)

\* A faulty duplicate check: a rank twice is never noticed.
hasDuplicateRankNever(positions) == FALSE

\* A faulty gap count: no gap is ever counted.
countGapsNone(positions) == 0

\* for (i = 1; ...) gap = positions[i].idx - positions[i-1].idx - 1
hasDuplicateRank(positions) ==
    \E i \in 2..Len(positions) : positions[i] - positions[i - 1] - 1 < 0

countGaps(positions) ==
    LET RECURSIVE sum(_)
        sum(i) == IF i > Len(positions) THEN 0
                  ELSE Max2(0, positions[i] - positions[i - 1] - 1) + sum(i + 1)
    IN sum(2)

validateSequence(cards) ==
    LET wilds == SelectSeq(cards, isWildCard)
        naturals == SelectSeq(cards, isNatural)
        suit == suitOf(naturals[1])
        idx == [i \in 1..Len(naturals) |-> getRankIndex(rankOf(naturals[i]))]
        has(k) == \E i \in 1..Len(idx) : idx[i] = k
        hasLowAce == has(0) /\ (has(1) \/ has(2))
        hasHighAce == has(0) /\ has(12)
        byPosition(positions) ==
            IF hasDuplicateRank(positions) THEN Invalid("Duplicate ranks in sequence")
            ELSE IF Len(wilds) > 1
                 THEN Invalid("Sequence can have at most 1 wild card (Joker)")
            ELSE IF countGaps(positions) > Len(wilds)
                 THEN Invalid("Not enough wild cards to fill gaps in sequence")
            ELSE [valid |-> TRUE, type |-> "sequence", rank |-> "none", suit |-> suit,
                  isClean |-> Len(wilds) = 0, isBurraco |-> Len(cards) >= 7,
                  reason |-> "none"]
    IN IF Len(cards) < 3 THEN Invalid("Sequence must have at least 3 cards")
       ELSE IF Len(cards) > 7 THEN Invalid("Meld cannot have more than 7 cards")
       ELSE IF Len(naturals) = 0 THEN Invalid("Sequence must contain natural cards")
       ELSE IF ~(\A i \in 1..Len(naturals) : suitOf(naturals[i]) = suit)
            THEN Invalid("All cards in a sequence must be the same suit")
       ELSE byPosition(acePositions(naturals, hasHighAce /\ ~hasLowAce))

validateMeld(cards) ==
    LET firstValid(setResult, seqResult) ==
            IF setResult.valid THEN setResult
            ELSE IF seqResult.valid THEN seqResult
            ELSE Invalid("Cards do not form a valid set or sequence")
    IN IF Len(cards) < 3 THEN Invalid("Meld must have at least 3 cards")
       ELSE firstValid(validateSet(cards), validateSequence(cards))

\* Ace is high if a natural K is present, or a Q or J together with a wild,
\* and no natural 2 or 3 is present.
aceIsHighRule(naturals, wilds) ==
    LET hasRank(r) == \E i \in 1..Len(naturals) : rankOf(naturals[i]) = r
    IN /\ hasRank("A") /\ ~hasRank("2") /\ ~hasRank("3")
       /\ \/ hasRank("K")
          \/ (hasRank("Q") \/ hasRank("J")) /\ Len(wilds) > 0

\* A faulty canFormSequenceWithWild: the wild card is never repositioned.
canFormSequenceWithWildNever(naturals, wilds, suit) == FALSE

canFormSequenceWithWild(naturals, wilds, suit) ==
    LET byPosition(positions) ==
            IF hasDuplicateRank(positions) THEN FALSE
            ELSE countGaps(positions) <= Len(wilds)
    IN IF Len(naturals) = 0 THEN FALSE
       ELSE IF Len(wilds) > 1 THEN FALSE
       ELSE IF ~(\A i \in 1..Len(naturals) : suitOf(naturals[i]) = suit) THEN FALSE
       ELSE byPosition(acePositions(naturals, aceIsHighRule(naturals, wilds)))

canExtendMeld(existingMeld, newCards, meldInfo) ==
    LET combined == existingMeld \o newCards
        naturals == SelectSeq(combined, isNatural)
        wilds == SelectSeq(combined, isWildCard)
        reposition(result) ==
            IF /\ ~result.valid
               /\ Len(wilds) > 0
               /\ Len(naturals) >= 3
               /\ \/ validateSequence(naturals).valid
                  \/ canFormSequenceWithWild(naturals, wilds, meldInfo.suit)
            THEN [valid |-> TRUE, type |-> "sequence", rank |-> "none",
                  suit |-> meldInfo.suit, isClean |-> Len(wilds) = 0,
                  isBurraco |-> Len(combined) >= 7, reason |-> "none"]
            ELSE result
    IN IF meldInfo.type = "set" THEN validateSet(combined)
       ELSE reposition(validateSequence(combined))

\* A faulty sortSequenceMeld: it returns the cards in reverse order.
sortSequenceMeldReversed(cards, suit) ==
    [i \in 1..Len(cards) |-> cards[Len(cards) + 1 - i]]

\* A faulty loop of sortSequenceMeld: it copies the naturals and puts no wild
\* into a gap.
insertWildsNowhere(naturals, wilds, aceIsHigh, i, wildIdx) ==
    [result |-> SubSeq(naturals, i, Len(naturals)), wildIdx |-> wildIdx]

\* The loop of sortSequenceMeld that copies the naturals and puts wilds into
\* the gaps: from natural i on, with wildIdx wilds already placed.
RECURSIVE insertWilds(_, _, _, _, _)
insertWilds(naturals, wilds, aceIsHigh, i, wildIdx) ==
    IF i > Len(naturals) THEN [result |-> <<>>, wildIdx |-> wildIdx]
    ELSE LET currentRank == getRankIndex(rankOf(naturals[i]))
             nextRank == IF rankOf(naturals[i + 1]) = "A" /\ aceIsHigh THEN 13
                         ELSE getRankIndex(rankOf(naturals[i + 1]))
             gap == IF i < Len(naturals) THEN nextRank - currentRank - 1 ELSE 0
             take == Max2(0, Min2(gap, Len(wilds) - wildIdx))
             push(rest) ==
                 [result |-> <<naturals[i]>> \o SubSeq(wilds, wildIdx + 1, wildIdx + take)
                             \o rest.result,
                  wildIdx |-> rest.wildIdx]
         IN push(insertWilds(naturals, wilds, aceIsHigh, i + 1, wildIdx + take))

sortSequenceMeld(cards, suit) ==
    LET wilds == SelectSeq(cards, isWildCard)
        \* the remaining wilds go before the first card or after the last
        finish(naturals, aceIsHigh, placed) ==
            LET wildsToPlace == SubSeq(wilds, placed.wildIdx + 1, Len(wilds))
                isEndingWithHighAce ==
                    /\ Len(naturals) > 0
                    /\ rankOf(naturals[Len(naturals)]) = "A"
                    /\ aceIsHigh
            IN IF isEndingWithHighAce THEN wildsToPlace \o placed.result
               ELSE placed.result \o wildsToPlace
        place(naturals, aceIsHigh) ==
            finish(naturals, aceIsHigh, insertWilds(naturals, wilds, aceIsHigh, 1, 0))
        \* a high Ace moves from the front of the sorted naturals to the end
        moveAce(sorted, aceIsHigh) ==
            place(IF aceIsHigh /\ rankOf(sorted[1]) = "A"
                  THEN Tail(sorted) \o <<sorted[1]>>
                  ELSE sorted,
                  aceIsHigh)
        order(sorted) ==
            moveAce(sorted, Len(sorted) >= 2 /\ aceIsHighRule(sorted, wilds))
    IN order(sortBy(SelectSeq(cards, isNatural), LAMBDA c : getRankIndex(rankOf(c))))

(***************************************************************************)
(* Scoring.js                                                              *)
(***************************************************************************)
CLEAN_BURRACO == 200
DIRTY_BURRACO == 200
SAME_RANK_BURRACO == 100
GOING_OUT == 50
POZZETTO_BONUS == 50

\* nonWildCards = cards.filter(card => card.rank !== 'WILD')
isSameRankMeld(cards) ==
    LET nonWildCards == SelectSeq(cards, LAMBDA c : rankOf(c) # "WILD")
    IN /\ Len(cards) # 0
       /\ Len(nonWildCards) # 0
       /\ \A i \in 1..Len(nonWildCards) : rankOf(nonWildCards[i]) = rankOf(nonWildCards[1])

\* The branch of calculateMeldScore a burraco takes.
burracoCategory(meld) ==
    IF isSameRankMeld(meld.cards) THEN "sameRank"
    ELSE IF meld.isClean THEN "clean"
    ELSE "dirty"

burracoBonus(meld) ==
    IF ~meld.isBurraco THEN 0
    ELSE IF isSameRankMeld(meld.cards) THEN SAME_RANK_BURRACO
    ELSE IF meld.isClean THEN CLEAN_BURRACO
    ELSE DIRTY_BURRACO

\* A faulty calculateMeldScore: a clean same-rank burraco is also counted as
\* a clean burraco.
calculateMeldScoreCountsTwice(melds) ==
    LET RECURSIVE sum(_)
        sum(i) == IF i > Len(melds) THEN 0
                  ELSE calculateCardsValue(melds[i].cards) + burracoBonus(melds[i])
                       + sum(i + 1)
        count(category) ==
            Cardinality({i \in 1..Len(melds) :
                           melds[i].isBurraco /\ burracoCategory(melds[i]) = category})
    IN [score |-> sum(1),
        cleanBurracos |-> Cardinality({i \in 1..Len(melds) :
                                         melds[i].isBurraco /\ melds[i].isClean}),
        dirtyBurracos |-> count("dirty"),
        sameRankBurracos |-> count("sameRank")]

calculateMeldScore(melds) ==
    LET RECURSIVE sum(_)
        sum(i) == IF i > Len(melds) THEN 0
                  ELSE calculateCardsValue(melds[i].cards) + burracoBonus(melds[i])
                       + sum(i + 1)
        count(category) ==
            Cardinality({i \in 1..Len(melds) :
                           melds[i].isBurraco /\ burracoCategory(melds[i]) = category})
    IN [score |-> sum(1),
        cleanBurracos |-> count("clean"),
        dirtyBurracos |-> count("dirty"),
        sameRankBurracos |-> count("sameRank")]

\* A faulty calculateHandPenalty: the cards left in hand count for the team.
calculateHandPenaltyAdded(handList) ==
    LET RECURSIVE sum(_)
        sum(i) == IF i > Len(handList) THEN 0
                  ELSE calculateCardsValue(handList[i]) + sum(i + 1)
    IN sum(1)

calculateHandPenalty(handList) ==
    LET RECURSIVE sum(_)
        sum(i) == IF i > Len(handList) THEN 0
                  ELSE calculateCardsValue(handList[i]) + sum(i + 1)
    IN 0 - sum(1)

calculateTeamScore(team) ==
    LET pozzettoBonus == team.pozzettoCount * POZZETTO_BONUS
        details(meldResult) ==
            [totalScore |-> meldResult.score + calculateHandPenalty(team.hands)
                            + (IF team.wentOut THEN GOING_OUT ELSE 0)
                            + pozzettoBonus,
             meldScore |-> meldResult.score,
             handPenalty |-> calculateHandPenalty(team.hands),
             cleanBurracos |-> meldResult.cleanBurracos,
             dirtyBurracos |-> meldResult.dirtyBurracos,
             sameRankBurracos |-> meldResult.sameRankBurracos,
             wentOutBonus |-> IF team.wentOut THEN GOING_OUT ELSE 0,
             pozzettoBonus |-> pozzettoBonus]
    IN details(calculateMeldScore(team.melds))

(***************************************************************************)
(* GameState.js: the round                                                 *)
(***************************************************************************)
VARIABLES
    hands,               \* socketId -> cards array
    drawPile,            \* top of the pile is the last element (pop)
    discardPile,         \* top of the pile is the last element (push)
    pozzetti,            \* the two reserve piles; a claimed pile is <<>>
    teams,               \* team -> melds, tookPozzetto, wentOut, ...
    currentPlayerIndex,  \* 0-based index into players
    currentPhase,        \* "draw", "meld" or "discard"
    turnCount,
    isGameOver,
    winner,              \* "null" until endGame
    scores,              \* team -> final score
    meldSeq,             \* number of melds created so far (source of meld ids)
    result,              \* what the last action call returned
    call,                \* the last call of a function of Deck, MeldValidator or
                         \* Scoring made outside a round: fn, args, out
    rooms,               \* the server's room map: room code -> Room
    roomResult,          \* what the last call on the room map or a Room returned
    requests,            \* how many requests the server has handled
    playerRooms          \* the sessions' map: player id -> room code (0: no room)

roundVars == <<hands, drawPile, discardPile, pozzetti, teams, currentPlayerIndex,
               currentPhase, turnCount, isGameOver, winner, scores, meldSeq>>
vars == <<hands, drawPile, discardPile, pozzetti, teams, currentPlayerIndex,
          currentPhase, turnCount, isGameOver, winner, scores, meldSeq, result,
          call, rooms, roomResult, requests, playerRooms>>
serverVars == <<rooms, roomResult, requests, playerRooms>>

\* The roster the Room hands to the constructor: { socketId, nickname, team, seat }.
players ==
    << [socketId |-> "s1", team |-> "A", seat |-> 0],
       [socketId |-> "s2", team |-> "B", seat |-> 1] >>

playerCount == Len(players)
PlayerIds == {players[i].socketId : i \in 1..Len(players)}
TeamIds == {"A", "B"}

\* The dealt cards the constructor receives: hands[i] belongs to players[i].
Deals ==
    << \* both reserve piles can be claimed and a hand emptied afterwards
       [hands |-> << <<1, 2>>, <<9, 10>> >>,
        pozzetti |-> << <<4, 5>>, <<12, 13>> >>,
        drawPile |-> <<8, 3>>,
        discardPile |-> <<11>>],
       \* a run of hearts and two Jokers in one hand
       [hands |-> << <<14, 15, 16, 17>>, <<13>> >>,
        pozzetti |-> << <<12>>, <<10>> >>,
        drawPile |-> <<18>>,
        discardPile |-> <<>>],
       \* three 7s and an odd card in one hand
       [hands |-> << <<19, 20, 22>>, <<13>> >>,
        pozzetti |-> << <<12>>, <<10>> >>,
        drawPile |-> <<21>>,
        discardPile |-> <<>>],
       \* a run of hearts, a Joker and one heart more, a second Joker to draw
       [hands |-> << <<15, 16, 17, 14, 19>>, <<13>> >>,
        pozzetti |-> << <<12>>, <<10>> >>,
        drawPile |-> <<18>>,
        discardPile |-> <<>>],
       \* a card on the discard pile and one card to draw
       [hands |-> << <<1>>, <<9>> >>,
        pozzetti |-> << <<4>>, <<12>> >>,
        drawPile |-> <<8>>,
        discardPile |-> <<11>>] >>

getCurrentPlayerId == players[currentPlayerIndex + 1].socketId

\* this.players.find(p => p.socketId === socketId).team
teamOf(socketId) ==
    players[CHOOSE i \in 1..Len(players) : players[i].socketId = socketId].team

\* team.playerIds, in roster order
playerIdsOf(teamId) ==
    LET member(i) == players[i].team = teamId
        idx == SelectSeq([i \in 1..Len(players) |-> i], member)
    IN [k \in 1..Len(idx) |-> players[idx[k]].socketId]

NoCall == [fn |-> "none", args |-> <<>>, done |-> FALSE, out |-> <<>>]

\* new GameState({ players, hands, pozzetti, drawPile, discardPile }) for deal d
constructor(d) ==
    /\ hands = [id \in PlayerIds |->
                  Deals[d].hands[CHOOSE i \in 1..Len(players) : players[i].socketId = id]]
    /\ drawPile = Deals[d].drawPile
    /\ discardPile = Deals[d].discardPile
    /\ pozzetti = Deals[d].pozzetti
    /\ teams = [t \in TeamIds |->
                  [melds |-> <<>>, tookPozzetto |-> FALSE, wentOut |-> FALSE,
                   pozzettoIndex |-> 0, pozzettoCount |-> 0]]
    /\ currentPlayerIndex = 0
    /\ currentPhase = "draw"
    /\ turnCount = 0
    /\ isGameOver = FALSE
    /\ winner = "null"
    /\ scores = [t \in TeamIds |-> 0]
    /\ meldSeq = 0
    /\ result = [op |-> "constructor", player |-> "none", success |-> TRUE,
                 reason |-> "none", card |-> NoCard, cardIds |-> <<>>,
                 tookPozzetto |-> FALSE, canGoOut |-> FALSE, gameOver |-> FALSE,
              winner |-> "none"]

\* const rooms = new Map(): no room yet, no call made
NoRooms == <<>>
\* const playerRooms = new Map(): no player has a room
NoPlayerRooms == [id \in {"s1", "s2", "s3", "s4", "s5"} |-> 0]
NoRoomResult == [op |-> "none", code |-> 0, success |-> TRUE, reason |-> "none"]

Init ==
    /\ call = NoCall /\ rooms = NoRooms /\ roomResult = NoRoomResult /\ requests = 0
    /\ playerRooms = NoPlayerRooms
    /\ \E d \in 1..Len(Deals) : constructor(d)

\* return { success: false, reason }: nothing of the round is assigned.
Reject(op, socketId, reason) ==
    /\ result' = [op |-> op, player |-> socketId, success |-> FALSE,
                  reason |-> reason, card |-> NoCard, cardIds |-> <<>>,
                  tookPozzetto |-> FALSE, canGoOut |-> FALSE, gameOver |-> FALSE,
                  winner |-> "none"]
    /\ UNCHANGED roundVars

\* A successful call: what it returned (card, tookPozzetto, canGoOut,
\* gameOver) and the card or card-id list it was made with.
Success(op, socketId, card, cardIds, tookPozzetto, canGoOut, gameOver) ==
    [op |-> op, player |-> socketId, success |-> TRUE, reason |-> "none",
     card |-> card, cardIds |-> cardIds, tookPozzetto |-> tookPozzetto,
     canGoOut |-> canGoOut, gameOver |-> gameOver, winner |-> "none"]

\* A faulty drawFromPile: refused on an empty draw pile, it has already moved
\* the round to the meld phase.
drawFromPileEmptyAdvances(socketId) ==
    IF socketId # getCurrentPlayerId THEN Reject("drawFromPile", socketId, "Not your turn")
    ELSE IF currentPhase # "draw" THEN Reject("drawFromPile", socketId, "Cannot draw now")
    ELSE IF Len(drawPile) = 0
    THEN /\ result' = [op |-> "drawFromPile", player |-> socketId, success |-> FALSE,
                       reason |-> "Draw pile is empty", card |-> NoCard,
                       cardIds |-> <<>>, tookPozzetto |-> FALSE,
                       canGoOut |-> FALSE, gameOver |-> FALSE,
                  winner |-> "none"]
         /\ currentPhase' = "meld"
         /\ UNCHANGED <<hands, drawPile, discardPile, pozzetti, teams,
                        currentPlayerIndex, turnCount, isGameOver, winner,
                        scores, meldSeq>>
    ELSE LET card == drawPile[Len(drawPile)]
         IN /\ drawPile' = SubSeq(drawPile, 1, Len(drawPile) - 1)
            /\ hands' = [hands EXCEPT ![socketId] = <<card>> \o @]
            /\ currentPhase' = "meld"
            /\ result' = Success("drawFromPile", socketId, card, <<>>, FALSE, FALSE, FALSE)
            /\ UNCHANGED <<discardPile, pozzetti, teams, currentPlayerIndex, turnCount,
                           isGameOver, winner, scores, meldSeq>>

drawFromPile(socketId) ==
    IF socketId # getCurrentPlayerId THEN Reject("drawFromPile", socketId, "Not your turn")
    ELSE IF currentPhase # "draw" THEN Reject("drawFromPile", socketId, "Cannot draw now")
    ELSE IF Len(drawPile) = 0 THEN Reject("drawFromPile", socketId, "Draw pile is empty")
    ELSE LET card == drawPile[Len(drawPile)]
         IN /\ drawPile' = SubSeq(drawPile, 1, Len(drawPile) - 1)
            /\ hands' = [hands EXCEPT ![socketId] = <<card>> \o @]
            /\ currentPhase' = "meld"
            /\ result' = Success("drawFromPile", socketId, card, <<>>, FALSE, FALSE, FALSE)
            /\ UNCHANGED <<discardPile, pozzetti, teams, currentPlayerIndex, turnCount,
                           isGameOver, winner, scores, meldSeq>>

\* A faulty takeDiscardPile: the pile is pushed after the hand's cards.
takeDiscardPileAppends(socketId) ==
    IF socketId # getCurrentPlayerId
    THEN Reject("takeDiscardPile", socketId, "Not your turn")
    ELSE IF currentPhase # "draw"
    THEN Reject("takeDiscardPile", socketId, "Cannot take discard pile now")
    ELSE IF Len(discardPile) = 0
    THEN Reject("takeDiscardPile", socketId, "Discard pile is empty")
    ELSE /\ discardPile' = <<>>
         /\ hands' = [hands EXCEPT ![socketId] = @ \o discardPile]
         /\ currentPhase' = "meld"
         /\ result' = Success("takeDiscardPile", socketId, NoCard, <<>>, FALSE, FALSE, FALSE)
         /\ UNCHANGED <<drawPile, pozzetti, teams, currentPlayerIndex, turnCount,
                        isGameOver, winner, scores, meldSeq>>

\* A faulty takeDiscardPile: it does not look at the phase, so the pile can be
\* taken after the turn's draw.
takeDiscardPileAnyPhase(socketId) ==
    IF socketId # getCurrentPlayerId
    THEN Reject("takeDiscardPile", socketId, "Not your turn")
    ELSE IF Len(discardPile) = 0
    THEN Reject("takeDiscardPile", socketId, "Discard pile is empty")
    ELSE /\ discardPile' = <<>>
         /\ hands' = [hands EXCEPT ![socketId] = discardPile \o @]
         /\ currentPhase' = "meld"
         /\ result' = Success("takeDiscardPile", socketId, NoCard, <<>>, FALSE, FALSE, FALSE)
         /\ UNCHANGED <<drawPile, pozzetti, teams, currentPlayerIndex, turnCount,
                        isGameOver, winner, scores, meldSeq>>

takeDiscardPile(socketId) ==
    IF socketId # getCurrentPlayerId
    THEN Reject("takeDiscardPile", socketId, "Not your turn")
    ELSE IF currentPhase # "draw"
    THEN Reject("takeDiscardPile", socketId, "Cannot take discard pile now")
    ELSE IF Len(discardPile) = 0
    THEN Reject("takeDiscardPile", socketId, "Discard pile is empty")
    ELSE /\ discardPile' = <<>>
         /\ hands' = [hands EXCEPT ![socketId] = discardPile \o @]
         /\ currentPhase' = "meld"
         /\ result' = Success("takeDiscardPile", socketId, NoCard, <<>>, FALSE, FALSE, FALSE)
         /\ UNCHANGED <<drawPile, pozzetti, teams, currentPlayerIndex, turnCount,
                        isGameOver, winner, scores, meldSeq>>

\* hand.splice(idx, 1) with idx = hand.findIndex(c => c.id === card.id): an
\* index of -1 (no match) makes splice remove the last element.
spliceCard(hand, card) ==
    LET idx == findIndex(hand, card)
    IN IF idx # 0 THEN removeAt(hand, idx)
       ELSE IF Len(hand) = 0 THEN hand
       ELSE SubSeq(hand, 1, Len(hand) - 1)

\* for (const card of cards) { ... hand.splice(idx, 1); }
RECURSIVE removeCards(_, _)
removeCards(hand, cards) ==
    IF cards = <<>> THEN hand
    ELSE removeCards(spliceCard(hand, cards[1]), Tail(cards))

\* The first pozzetto no team has recorded and that still holds cards; 0 if none.
firstAvailablePozzetto(t, pz) ==
    LET free(i) == /\ \A team \in TeamIds : t[team].pozzettoIndex # i
                   /\ Len(pz[i]) > 0
    IN IF \E i \in 1..Len(pz) : free(i)
       THEN CHOOSE i \in 1..Len(pz) : free(i) /\ \A j \in 1..(i - 1) : ~free(j)
       ELSE 0

\* A faulty handleEmptyHand: the pile it hands out stays in the reserve.
handleEmptyHandKeepsPile(socketId, h, t, pz) ==
    LET team == teamOf(socketId)
        i == firstAvailablePozzetto(t, pz)
    IN IF t[team].tookPozzetto
       THEN [hands |-> h, teams |-> t, pozzetti |-> pz,
             tookPozzetto |-> FALSE, canGoOut |-> TRUE]
       ELSE IF i # 0
       THEN [hands |-> [h EXCEPT ![socketId] = pz[i]],
             teams |-> [t EXCEPT ![team].tookPozzetto = TRUE,
                                 ![team].pozzettoIndex = i,
                                 ![team].pozzettoCount = @ + 1],
             pozzetti |-> pz,
             tookPozzetto |-> TRUE, canGoOut |-> FALSE]
       ELSE [hands |-> h, teams |-> t, pozzetti |-> pz,
             tookPozzetto |-> FALSE, canGoOut |-> FALSE]

\* handleEmptyHand(socketId), applied to the hands, teams and pozzetti the
\* caller has produced so far; yields their new values and the returned flags.
handleEmptyHand(socketId, h, t, pz) ==
    LET team == teamOf(socketId)
        i == firstAvailablePozzetto(t, pz)
    IN IF t[team].tookPozzetto
       THEN [hands |-> h, teams |-> t, pozzetti |-> pz,
             tookPozzetto |-> FALSE, canGoOut |-> TRUE]
       ELSE IF i # 0
       THEN [hands |-> [h EXCEPT ![socketId] = pz[i]],
             teams |-> [t EXCEPT ![team].tookPozzetto = TRUE,
                                 ![team].pozzettoIndex = i,
                                 ![team].pozzettoCount = @ + 1],
             pozzetti |-> [pz EXCEPT ![i] = <<>>],
             tookPozzetto |-> TRUE, canGoOut |-> FALSE]
       ELSE [hands |-> h, teams |-> t, pozzetti |-> pz,
             tookPozzetto |-> FALSE, canGoOut |-> FALSE]

\* The tail shared by playMeld and extendMeld: store the hand and the melds,
\* and take a pozzetto if the hand is empty.
finishMeld(op, socketId, cardIds, h, t) ==
    IF Len(h[socketId]) = 0
    THEN \E e \in {handleEmptyHand(socketId, h, t, pozzetti)} :
            /\ hands' = e.hands
            /\ teams' = e.teams
            /\ pozzetti' = e.pozzetti
            /\ result' = Success(op, socketId, NoCard, cardIds,
                                 e.tookPozzetto, e.canGoOut, FALSE)
    ELSE /\ hands' = h
         /\ teams' = t
         /\ pozzetti' = pozzetti
         /\ result' = Success(op, socketId, NoCard, cardIds, FALSE, FALSE, FALSE)

allInHand(hand, cardIds) ==
    \A k \in 1..Len(cardIds) : findIndex(hand, cardIds[k]) # 0

\* The meld object playMeld pushes onto team.melds.
createMeld(id, cards, validation) ==
    [id |-> id,
     cards |-> IF validation.type = "sequence"
               THEN sortSequenceMeld(cards, validation.suit)
               ELSE cards,
     type |-> validation.type, rank |-> validation.rank,
     suit |-> validation.suit, isClean |-> validation.isClean,
     isBurraco |-> validation.isBurraco]

\* A faulty extendMeld: the cards are pushed, the flags of the meld are not
\* stored again.
extendedMeldKeepsFlags(meld, cards, validation) ==
    [meld EXCEPT
       !.cards = IF meld.type = "sequence"
                 THEN sortSequenceMeld(meld.cards \o cards, meld.suit)
                 ELSE meld.cards \o cards]

\* The meld object after extendMeld has pushed the cards and stored the flags.
extendedMeld(meld, cards, validation) ==
    [meld EXCEPT
       !.cards = IF meld.type = "sequence"
                 THEN sortSequenceMeld(meld.cards \o cards, meld.suit)
                 ELSE meld.cards \o cards,
       !.isClean = validation.isClean,
       !.isBurraco = validation.isBurraco]

playMeld(socketId, cardIds) ==
    LET hand == hands[socketId]
        team == teamOf(socketId)
        cards == cardIds
        meld(validation) == createMeld(meldSeq + 1, cards, validation)
    IN IF socketId # getCurrentPlayerId THEN Reject("playMeld", socketId, "Not your turn")
       ELSE IF currentPhase # "meld" THEN Reject("playMeld", socketId, "Cannot meld now")
       ELSE IF ~allInHand(hand, cardIds) THEN Reject("playMeld", socketId, "Card not in hand")
       ELSE \E validation \in {validateMeld(cards)} :
            IF ~validation.valid THEN Reject("playMeld", socketId, validation.reason)
            ELSE /\ finishMeld("playMeld", socketId, cardIds,
                               [hands EXCEPT ![socketId] = removeCards(hand, cards)],
                               [teams EXCEPT ![team].melds = Append(@, meld(validation))])
                 /\ meldSeq' = meldSeq + 1
                 /\ UNCHANGED <<drawPile, discardPile, currentPlayerIndex, currentPhase,
                                turnCount, isGameOver, winner, scores>>

\* A faulty lookup: the id of a meld of any team is taken for the first meld
\* of the list.
findMeldOfAnyTeam(melds, meldId) ==
    IF \E i \in 1..Len(melds) : melds[i].id = meldId
    THEN CHOOSE i \in 1..Len(melds) : melds[i].id = meldId
    ELSE IF /\ Len(melds) > 0
            /\ \E t \in TeamIds : \E i \in 1..Len(teams[t].melds) :
                   teams[t].melds[i].id = meldId
    THEN 1
    ELSE 0

\* team.melds.find(m => m.id === meldId): its 1-based position, 0 if none.
findMeld(melds, meldId) ==
    IF \E i \in 1..Len(melds) : melds[i].id = meldId
    THEN CHOOSE i \in 1..Len(melds) : melds[i].id = meldId
    ELSE 0

extendMeld(socketId, meldId, cardIds) ==
    LET hand == hands[socketId]
        team == teamOf(socketId)
        m == findMeld(teams[team].melds, meldId)
        meld == teams[team].melds[m]
        cards == cardIds
        newMeld(validation) == extendedMeld(meld, cards, validation)
    IN IF socketId # getCurrentPlayerId THEN Reject("extendMeld", socketId, "Not your turn")
       ELSE IF currentPhase # "meld" THEN Reject("extendMeld", socketId, "Cannot meld now")
       ELSE IF m = 0 THEN Reject("extendMeld", socketId, "Meld not found")
       ELSE IF ~allInHand(hand, cardIds)
       THEN Reject("extendMeld", socketId, "Card not in hand")
       ELSE \E validation \in {canExtendMeld(meld.cards, cards, meld)} :
            IF ~validation.valid THEN Reject("extendMeld", socketId, validation.reason)
            ELSE /\ finishMeld("extendMeld", socketId, cardIds,
                               [hands EXCEPT ![socketId] = removeCards(hand, cards)],
                               [teams EXCEPT ![team].melds[m] = newMeld(validation)])
                 /\ UNCHANGED <<drawPile, discardPile, currentPlayerIndex, currentPhase,
                                turnCount, isGameOver, winner, scores, meldSeq>>

replaceWildInMeld(socketId, meldId, wildCardId, naturalCardId) ==
    LET hand == hands[socketId]
        team == teamOf(socketId)
        m == findMeld(teams[team].melds, meldId)
        meld == teams[team].melds[m]
        wildIdx == findIndex(meld.cards, wildCardId)
        wildCard == meld.cards[wildIdx]
        naturalCard == naturalCardId
        newMeldCards == Append(SelectSeq(meld.cards, LAMBDA c : c # wildCardId),
                               naturalCard)
        newMeld(validation) ==
            [meld EXCEPT !.cards = sortSequenceMeld(newMeldCards, meld.suit),
                         !.isClean = validation.isClean,
                         !.isBurraco = validation.isBurraco]
    IN IF socketId # getCurrentPlayerId
       THEN Reject("replaceWildInMeld", socketId, "Not your turn")
       ELSE IF currentPhase # "meld"
       THEN Reject("replaceWildInMeld", socketId, "Cannot modify melds now")
       ELSE IF m = 0 THEN Reject("replaceWildInMeld", socketId, "Meld not found")
       ELSE IF meld.type # "sequence"
       THEN Reject("replaceWildInMeld", socketId, "Can only replace wilds in sequences")
       ELSE IF wildIdx = 0
       THEN Reject("replaceWildInMeld", socketId, "Wild card not found in meld")
       ELSE IF rankOf(wildCard) # "JOKER"
       THEN Reject("replaceWildInMeld", socketId,
                   "Selected card is not a wild card (only Jokers are wild)")
       ELSE IF findIndex(hand, naturalCardId) = 0
       THEN Reject("replaceWildInMeld", socketId, "Natural card not in hand")
       ELSE IF suitOf(naturalCard) # meld.suit
       THEN Reject("replaceWildInMeld", socketId, "Card must match the meld suit")
       ELSE \E validation \in {validateMeld(newMeldCards)} :
            IF ~validation.valid
            THEN Reject("replaceWildInMeld", socketId,
                        "Replacement would create invalid meld")
            ELSE /\ hands' = [hands EXCEPT ![socketId] =
                                Append(removeAt(hand, findIndex(hand, naturalCardId)),
                                       wildCard)]
                 /\ teams' = [teams EXCEPT ![team].melds[m] = newMeld(validation)]
                 /\ result' = Success("replaceWildInMeld", socketId, wildCard, <<>>,
                                      FALSE, FALSE, FALSE)
                 /\ UNCHANGED <<drawPile, discardPile, pozzetti, currentPlayerIndex,
                                currentPhase, turnCount, isGameOver, winner, scores,
                                meldSeq>>

\* A faulty nextTurn: the same player stays on turn.
nextTurnSamePlayer ==
    /\ currentPlayerIndex' = currentPlayerIndex
    /\ currentPhase' = "draw"
    /\ turnCount' = turnCount + 1

\* nextTurn()
nextTurn ==
    /\ currentPlayerIndex' = (currentPlayerIndex + 1) % playerCount
    /\ currentPhase' = "draw"
    /\ turnCount' = turnCount + 1

\* A faulty endGame: it compares the scores before it has stored the new ones.
endGameStaleScores(h, t) ==
    /\ isGameOver' = TRUE
    /\ scores' = [team \in TeamIds |->
                    calculateTeamScore(
                        [melds |-> t[team].melds,
                         hands |-> [k \in 1..Len(playerIdsOf(team)) |->
                                      h[playerIdsOf(team)[k]]],
                         pozzettoCount |-> t[team].pozzettoCount,
                         wentOut |-> t[team].wentOut]).totalScore]
    /\ winner' = IF scores["A"] > scores["B"] THEN "A"
                 ELSE IF scores["B"] > scores["A"] THEN "B"
                 ELSE "tie"

\* endGame(reason), from the final hands and teams
endGame(h, t) ==
    /\ isGameOver' = TRUE
    /\ scores' = [team \in TeamIds |->
                    calculateTeamScore(
                        [melds |-> t[team].melds,
                         hands |-> [k \in 1..Len(playerIdsOf(team)) |->
                                      h[playerIdsOf(team)[k]]],
                         pozzettoCount |-> t[team].pozzettoCount,
                         wentOut |-> t[team].wentOut]).totalScore]
    /\ winner' = IF scores'["A"] > scores'["B"] THEN "A"
                 ELSE IF scores'["B"] > scores'["A"] THEN "B"
                 ELSE "tie"

\* getGameResult(): the recorded winner and scores
getGameResult == [winner |-> winner, scores |-> scores]

\* The fields of a GameState object that getPlayerView reads.
gameState ==
    [hands |-> hands, drawPile |-> drawPile, discardPile |-> discardPile,
     pozzetti |-> pozzetti, teams |-> teams,
     currentPlayerIndex |-> currentPlayerIndex, currentPhase |-> currentPhase,
     isGameOver |-> isGameOver, winner |-> winner]

\* getLiveScores(): the meld score of each team that has melds
getLiveScores(gs) ==
    [team \in TeamIds |->
       IF Len(gs.teams[team].melds) > 0
       THEN calculateMeldScore(gs.teams[team].melds).score
       ELSE 0]

\* A faulty getPlayerView: every player's entry also carries the hand.
getPlayerViewShowsHands(socketId, gs) ==
    [hand |-> gs.hands[socketId],
     players |-> [i \in 1..Len(players) |->
                    [seat |-> players[i].seat, team |-> players[i].team,
                     hand |-> gs.hands[players[i].socketId],
                     cardCount |-> Len(gs.hands[players[i].socketId])]]]

\* getPlayerView(socketId) of the GameState gs
getPlayerView(socketId, gs) ==
    [hand |-> gs.hands[socketId],
     myTeam |-> teamOf(socketId),
     players |-> [i \in 1..Len(players) |->
                    [seat |-> players[i].seat, team |-> players[i].team,
                     cardCount |-> Len(gs.hands[players[i].socketId]),
                     isCurrentPlayer |->
                         players[i].socketId = players[gs.currentPlayerIndex + 1].socketId]],
     drawPileCount |-> Len(gs.drawPile),
     discardPile |-> gs.discardPile,
     topDiscard |-> IF gs.discardPile = <<>> THEN NoCard
                    ELSE gs.discardPile[Len(gs.discardPile)],
     teamsMelds |-> [team \in TeamIds |-> gs.teams[team].melds],
     pozzettiTaken |-> [k \in 1..Len(gs.pozzetti) |-> Len(gs.pozzetti[k]) = 0],
     pozzettiCounts |-> [k \in 1..Len(gs.pozzetti) |-> Len(gs.pozzetti[k])],
     isMyTurn |-> socketId = players[gs.currentPlayerIndex + 1].socketId,
     currentPhase |-> gs.currentPhase,
     isGameOver |-> gs.isGameOver,
     winner |-> gs.winner,
     scores |-> getLiveScores(gs)]

\* this.pozzetti.findIndex(p => p && p.length > 0): 1-based, 0 if none
availablePozzettoIndex(pz) ==
    IF \E i \in 1..Len(pz) : Len(pz[i]) > 0
    THEN CHOOSE i \in 1..Len(pz) : Len(pz[i]) > 0 /\ \A j \in 1..(i - 1) : Len(pz[j]) = 0
    ELSE 0

\* A faulty discardCard: the pozzetto taken is not counted for the team.
discardCardUncounted(socketId, cardId) ==
    LET hand == hands[socketId]
        team == teamOf(socketId)
        cardIndex == findIndex(hand, cardId)
        card == hand[cardIndex]
        hand1 == removeAt(hand, cardIndex)
        i == availablePozzettoIndex(pozzetti)
    IN /\ discardPile' = Append(discardPile, card)
       /\ UNCHANGED <<drawPile, meldSeq>>
       /\ IF Len(hand1) = 0 /\ i = 0
          THEN \* no pozzetti left: the player goes out
               /\ hands' = [hands EXCEPT ![socketId] = hand1]
               /\ teams' = [teams EXCEPT ![team].wentOut = TRUE]
               /\ endGame(hands', teams')
               /\ result' = [Success("discard", socketId, card, <<>>, FALSE, FALSE, TRUE)
                               EXCEPT !.winner = team]
               /\ UNCHANGED <<pozzetti, currentPlayerIndex, currentPhase, turnCount>>
          ELSE IF Len(hand1) = 0
          THEN \* take the available pozzetto
               /\ hands' = [hands EXCEPT ![socketId] = pozzetti[i]]
               /\ teams' = [teams EXCEPT ![team].tookPozzetto = TRUE,
                                         ![team].pozzettoIndex = i]
               /\ pozzetti' = [pozzetti EXCEPT ![i] = <<>>]
               /\ nextTurn
               /\ result' = Success("discard", socketId, card, <<>>, TRUE, FALSE, FALSE)
               /\ UNCHANGED <<isGameOver, winner, scores>>
          ELSE /\ hands' = [hands EXCEPT ![socketId] = hand1]
               /\ nextTurn
               /\ result' = Success("discard", socketId, card, <<>>, FALSE, FALSE, FALSE)
               /\ UNCHANGED <<pozzetti, teams, isGameOver, winner, scores>>

\* A faulty discard: the discard that ends the round puts the phase back to draw.
discardCardReopensDraw(socketId, cardId) ==
    LET hand == hands[socketId]
        team == teamOf(socketId)
        cardIndex == findIndex(hand, cardId)
        card == hand[cardIndex]
        hand1 == removeAt(hand, cardIndex)
        i == availablePozzettoIndex(pozzetti)
    IN /\ discardPile' = Append(discardPile, card)
       /\ UNCHANGED <<drawPile, meldSeq>>
       /\ IF Len(hand1) = 0 /\ i = 0
          THEN \* no pozzetti left: the player goes out
               /\ hands' = [hands EXCEPT ![socketId] = hand1]
               /\ teams' = [teams EXCEPT ![team].wentOut = TRUE]
               /\ endGame(hands', teams')
               /\ result' = [Success("discard", socketId, card, <<>>, FALSE, FALSE, TRUE)
                               EXCEPT !.winner = team]
               /\ currentPhase' = "draw"
               /\ UNCHANGED <<pozzetti, currentPlayerIndex, turnCount>>
          ELSE IF Len(hand1) = 0
          THEN \* take the available pozzetto
               /\ hands' = [hands EXCEPT ![socketId] = pozzetti[i]]
               /\ teams' = [teams EXCEPT ![team].tookPozzetto = TRUE,
                                         ![team].pozzettoIndex = i,
                                         ![team].pozzettoCount = @ + 1]
               /\ pozzetti' = [pozzetti EXCEPT ![i] = <<>>]
               /\ nextTurn
               /\ result' = Success("discard", socketId, card, <<>>, TRUE, FALSE, FALSE)
               /\ UNCHANGED <<isGameOver, winner, scores>>
          ELSE /\ hands' = [hands EXCEPT ![socketId] = hand1]
               /\ nextTurn
               /\ result' = Success("discard", socketId, card, <<>>, FALSE, FALSE, FALSE)
               /\ UNCHANGED <<pozzetti, teams, isGameOver, winner, scores>>

\* A faulty discard: the card leaves the hand but never reaches the discard pile.
discardCardOffPile(socketId, cardId) ==
    LET hand == hands[socketId]
        team == teamOf(socketId)
        cardIndex == findIndex(hand, cardId)
        card == hand[cardIndex]
        hand1 == removeAt(hand, cardIndex)
        i == availablePozzettoIndex(pozzetti)
    IN /\ discardPile' = discardPile
       /\ UNCHANGED <<drawPile, meldSeq>>
       /\ IF Len(hand1) = 0 /\ i = 0
          THEN \* no pozzetti left: the player goes out
               /\ hands' = [hands EXCEPT ![socketId] = hand1]
               /\ teams' = [teams EXCEPT ![team].wentOut = TRUE]
               /\ endGame(hands', teams')
               /\ result' = [Success("discard", socketId, card, <<>>, FALSE, FALSE, TRUE)
                               EXCEPT !.winner = team]
               /\ UNCHANGED <<pozzetti, currentPlayerIndex, currentPhase, turnCount>>
          ELSE IF Len(hand1) = 0
          THEN \* take the available pozzetto
               /\ hands' = [hands EXCEPT ![socketId] = pozzetti[i]]
               /\ teams' = [teams EXCEPT ![team].tookPozzetto = TRUE,
                                         ![team].pozzettoIndex = i,
                                         ![team].pozzettoCount = @ + 1]
               /\ pozzetti' = [pozzetti EXCEPT ![i] = <<>>]
               /\ nextTurn
               /\ result' = Success("discard", socketId, card, <<>>, TRUE, FALSE, FALSE)
               /\ UNCHANGED <<isGameOver, winner, scores>>
          ELSE /\ hands' = [hands EXCEPT ![socketId] = hand1]
               /\ nextTurn
               /\ result' = Success("discard", socketId, card, <<>>, FALSE, FALSE, FALSE)
               /\ UNCHANGED <<pozzetti, teams, isGameOver, winner, scores>>

\* discard, once the card is known to be in the current player's hand: move
\* it to the discard pile, then go out, take a pozzetto or pass the turn.
discardCard(socketId, cardId) ==
    LET hand == hands[socketId]
        team == teamOf(socketId)
        cardIndex == findIndex(hand, cardId)
        card == hand[cardIndex]
        hand1 == removeAt(hand, cardIndex)
        i == availablePozzettoIndex(pozzetti)
    IN /\ discardPile' = Append(discardPile, card)
       /\ UNCHANGED <<drawPile, meldSeq>>
       /\ IF Len(hand1) = 0 /\ i = 0
          THEN \* no pozzetti left: the player goes out
               /\ hands' = [hands EXCEPT ![socketId] = hand1]
               /\ teams' = [teams EXCEPT ![team].wentOut = TRUE]
               /\ endGame(hands', teams')
               /\ result' = [Success("discard", socketId, card, <<>>, FALSE, FALSE, TRUE)
                               EXCEPT !.winner = team]
               /\ UNCHANGED <<pozzetti, currentPlayerIndex, currentPhase, turnCount>>
          ELSE IF Len(hand1) = 0
          THEN \* take the available pozzetto
               /\ hands' = [hands EXCEPT ![socketId] = pozzetti[i]]
               /\ teams' = [teams EXCEPT ![team].tookPozzetto = TRUE,
                                         ![team].pozzettoIndex = i,
                                         ![team].pozzettoCount = @ + 1]
               /\ pozzetti' = [pozzetti EXCEPT ![i] = <<>>]
               /\ nextTurn
               /\ result' = Success("discard", socketId, card, <<>>, TRUE, FALSE, FALSE)
               /\ UNCHANGED <<isGameOver, winner, scores>>
          ELSE /\ hands' = [hands EXCEPT ![socketId] = hand1]
               /\ nextTurn
               /\ result' = Success("discard", socketId, card, <<>>, FALSE, FALSE, FALSE)
               /\ UNCHANGED <<pozzetti, teams, isGameOver, winner, scores>>

\* A faulty discard: it does not ask whose turn it is.
discardAnyPlayer(socketId, cardId) ==
    IF currentPhase # "meld" /\ currentPhase # "discard"
    THEN Reject("discard", socketId, "Cannot discard now")
    ELSE IF findIndex(hands[socketId], cardId) = 0
    THEN Reject("discard", socketId, "Card not in hand")
    ELSE discardCard(socketId, cardId)

discard(socketId, cardId) ==
    IF socketId # getCurrentPlayerId THEN Reject("discard", socketId, "Not your turn")
    ELSE IF currentPhase # "meld" /\ currentPhase # "discard"
    THEN Reject("discard", socketId, "Cannot discard now")
    ELSE IF findIndex(hands[socketId], cardId) = 0
    THEN Reject("discard", socketId, "Card not in hand")
    ELSE discardCard(socketId, cardId)

(***************************************************************************)
(* The calls the transport layer can make on a round.                      *)
(***************************************************************************)
\* Ids a caller can name for a card of this hand: each id in it, or an id
\* that is not in it.
idsFor(cards) == {cards[k] : k \in 1..Len(cards)} \cup {NoCard}

\* Card-id lists of up to MaxIds entries over the caller's hand, in any order
\* and with repeats.  A call that is turned away before the handler reads the
\* list (not the caller's turn, wrong phase) is made with the empty list only.
cardIdLists(socketId) ==
    IF socketId = getCurrentPlayerId /\ currentPhase = "meld"
    THEN UNION {[1..n -> idsFor(hands[socketId])] : n \in 0..MaxIds}
    ELSE {<<>>}

meldIds == 0..meldSeq

meldCardIds(meldId) ==
    {NoCard} \cup
    UNION {idsFor(teams[t].melds[k].cards) :
             <<t, k>> \in {tk \in TeamIds \X (1..meldSeq) :
                             /\ tk[2] <= Len(teams[tk[1]].melds)
                             /\ teams[tk[1]].melds[tk[2]].id = meldId}}

Draw == \E p \in PlayerIds : drawFromPile(p) /\ UNCHANGED <<call, serverVars>>
TakeDiscard == \E p \in PlayerIds : takeDiscardPile(p) /\ UNCHANGED <<call, serverVars>>
PlayMeld ==
    \E p \in PlayerIds : \E ids \in cardIdLists(p) :
        playMeld(p, ids) /\ UNCHANGED <<call, serverVars>>
ExtendMeld ==
    \E p \in PlayerIds : \E m \in meldIds : \E ids \in cardIdLists(p) :
        extendMeld(p, m, ids) /\ UNCHANGED <<call, serverVars>>
ReplaceWild ==
    \E p \in PlayerIds : \E m \in meldIds :
        \E w \in meldCardIds(m) : \E n \in idsFor(hands[p]) :
            replaceWildInMeld(p, m, w, n) /\ UNCHANGED <<call, serverVars>>
Discard ==
    \E p \in PlayerIds : \E c \in idsFor(hands[p]) :
        discard(p, c) /\ turnCount' <= MaxTurns /\ UNCHANGED <<call, serverVars>>

Next == Draw \/ TakeDiscard \/ PlayMeld \/ ExtendMeld \/ ReplaceWild \/ Discard

Spec == Init /\ [][Next]_vars

(***************************************************************************)
(* Calls of the functions of MeldValidator, Scoring and Deck on their own  *)
(***************************************************************************)
MaxListLen == 4      \* longest card list drawn freely from ShortPool
MaxExtend == 2       \* longest list of added cards drawn freely from ShortPool
MaxPicked == 3       \* longest list of added cards picked from a base list
MaxMelds == 2        \* most melds of a scored team
MaxPozzettoCount == 2
MaxDeckCount == 3    \* largest deckCount of a room's config
MaxJokersPerDeck == 2
MaxCut == 12         \* the shuffles tried: the deck cut at 0..MaxCut

\* 3, 5, 6, 7 of spades, 6 of hearts, a joker, Q, K, A, 2 of diamonds
ShortPool == {1, 3, 4, 5, 14, 17, 11, 7, 23, 24}

\* 3..8 of spades with two jokers and the 6 of hearts; seven 7s with two
\* jokers; A, 2, 9, 10, J, Q, K of diamonds with a joker
LongBases ==
    { <<1, 2, 3, 17, 4, 5, 6, 18, 14>>,
      <<19, 20, 21, 17, 5, 25, 26, 18, 27>>,
      <<23, 24, 8, 9, 10, 11, 17, 7>> }

listsOver(pool, n) == UNION {[1..k -> pool] : k \in 0..n}

\* The lists that keep some of the cards of base, in the order of base.
sublists(base) ==
    LET pick(S) == SelectSeq([i \in 1..Len(base) |-> i], LAMBDA i : i \in S)
        keep(picked) == [k \in 1..Len(picked) |-> base[picked[k]]]
    IN {keep(pick(S)) : S \in SUBSET (1..Len(base))}

\* The card lists the functions are called with.
CardLists == listsOver(ShortPool, MaxListLen) \cup UNION {sublists(b) : b \in LongBases}

\* The cards added to a meld.
ExtensionLists ==
    listsOver(ShortPool, MaxExtend)
    \cup {l \in UNION {sublists(b) : b \in LongBases} : Len(l) <= MaxPicked}

\* The melds playMeld creates from the card lists.
PlayedMelds ==
    LET played(cards, validation) ==
            IF validation.valid THEN {createMeld(0, cards, validation)} ELSE {}
    IN UNION {played(cards, validateMeld(cards)) : cards \in CardLists}

\* The cards of a sequence with one wild card, the wild card held at each
\* position in turn: a caller may pass the cards of a meld in any such order.
wildAnywhere(cards) ==
    LET naturals == SelectSeq(cards, isNatural)
        wilds == SelectSeq(cards, isWildCard)
    IN {SubSeq(naturals, 1, j) \o wilds \o SubSeq(naturals, j + 1, Len(naturals)) :
          j \in 0..Len(naturals)}

\* The melds a scored list is made of: the burracos playMeld creates and the
\* melds of the first three cards of a base list.
ScoredMelds ==
    {m \in PlayedMelds : m.isBurraco \/ \E b \in LongBases : m.cards = SubSeq(b, 1, 3)}

\* The hands of the members of a scored team.
HandInputs == {<<>>, <<1>>, <<17, 7>>}

\* The teams of the README's example score calculation: Team A with three
\* Aces and 5..J of spades, one reserve pile, gone out, empty hands; Team B
\* with four Kings and 3-4-5-JOKER-7-8-9 of hearts, one reserve pile, Q of
\* spades and 5 of diamonds left in hand.
readmeTeamA ==
    [melds |-> << createMeld(0, <<23, 36, 37>>, validateMeld(<<23, 36, 37>>)),
                  createMeld(0, <<3, 4, 5, 6, 28, 29, 30>>,
                             validateMeld(<<3, 4, 5, 6, 28, 29, 30>>)) >>,
     hands |-> << <<>> >>,
     pozzettoCount |-> 1,
     wentOut |-> TRUE]

readmeTeamB ==
    [melds |-> << createMeld(0, <<7, 33, 34, 35>>, validateMeld(<<7, 33, 34, 35>>)),
                  createMeld(0, <<31, 15, 16, 17, 19, 32, 22>>,
                             validateMeld(<<31, 15, 16, 17, 19, 32, 22>>)) >>,
     hands |-> << <<38, 39>> >>,
     pozzettoCount |-> 1,
     wentOut |-> FALSE]

TeamInputs ==
    [melds : listsOver(ScoredMelds, MaxMelds),
     hands : listsOver(HandInputs, 2),
     pozzettoCount : 0..MaxPozzettoCount,
     wentOut : BOOLEAN]

SUITS == <<"hearts", "diamonds", "clubs", "spades">>

\* The cards createDeck pushes for one deckIndex: 52 standard cards, 2 jokers.
deckCopy(deckIndex) ==
    [k \in 1..(Len(SUITS) * Len(RANKS)) |->
       [id |-> <<SUITS[((k - 1) \div Len(RANKS)) + 1], RANKS[((k - 1) % Len(RANKS)) + 1],
                 deckIndex>>,
        card |-> createCard(SUITS[((k - 1) \div Len(RANKS)) + 1],
                            RANKS[((k - 1) % Len(RANKS)) + 1])]]
    \o << [id |-> <<"joker", "JOKER", deckIndex * 2>>,
           card |-> createCard("joker", "JOKER")],
          [id |-> <<"joker", "JOKER", deckIndex * 2 + 1>>,
           card |-> createCard("joker", "JOKER")] >>

\* for (deckIndex = 0; deckIndex < 2; deckIndex++)
createDeck == deckCopy(0) \o deckCopy(1)

\* One of the permutations shuffle can return: the deck cut at position cut.
shuffle(deck, cut) == SubSeq(deck, cut + 1, Len(deck)) \o SubSeq(deck, 1, cut)

cardsPerHand == 11

\* dealCards(playerCount) on a shuffled deck; Room.startGame also passes
\* deckCount and jokersPerDeck, for which dealCards has no parameters.
dealCards(count, deck) ==
    LET handsEnd == count * cardsPerHand
    IN [hands |-> [i \in 1..count |->
                     SubSeq(deck, (i - 1) * cardsPerHand + 1, i * cardsPerHand)],
        pozzetti |-> << SubSeq(deck, handsEnd + 1, handsEnd + 11),
                        SubSeq(deck, handsEnd + 12, handsEnd + 22) >>,
        discardPile |-> << deck[handsEnd + 23] >>,
        drawPile |-> SubSeq(deck, handsEnd + 24, Len(deck))]

\* A call that has been made and has not returned yet.
Pending(fn, args) == [fn |-> fn, args |-> args, done |-> FALSE, out |-> <<>>]

Returned(out) == [call EXCEPT !.done = TRUE, !.out = out]

CallValidateSet ==
    /\ call.fn = "validateSet" /\ ~call.done
    /\ call' = Returned(validateSet(call.args[1]))
    /\ UNCHANGED <<roundVars, result, serverVars>>

CallValidateSequence ==
    /\ call.fn = "validateSequence" /\ ~call.done
    /\ call' = Returned(validateSequence(call.args[1]))
    /\ UNCHANGED <<roundVars, result, serverVars>>

CallValidateMeld ==
    /\ call.fn = "validateMeld" /\ ~call.done
    /\ call' = Returned(validateMeld(call.args[1]))
    /\ UNCHANGED <<roundVars, result, serverVars>>

CallCanExtendMeld ==
    /\ call.fn = "canExtendMeld" /\ ~call.done
    /\ call' = Returned(canExtendMeld(call.args[1], call.args[2], call.args[3]))
    /\ UNCHANGED <<roundVars, result, serverVars>>

CallCalculateMeldScore ==
    /\ call.fn = "calculateMeldScore" /\ ~call.done
    /\ call' = Returned(calculateMeldScore(call.args[1]))
    /\ UNCHANGED <<roundVars, result, serverVars>>

CallCalculateTeamScore ==
    /\ call.fn = "calculateTeamScore" /\ ~call.done
    /\ call' = Returned(calculateTeamScore(call.args[1]))
    /\ UNCHANGED <<roundVars, result, serverVars>>

\* Room.startGame: dealCards(maxPlayers, config.deckCount, config.jokersPerDeck);
\* the fourth argument is the outcome of the shuffle.
CallDealCards ==
    /\ call.fn = "dealCards" /\ ~call.done
    /\ call' = Returned(dealCards(call.args[1], shuffle(createDeck, call.args[4])))
    /\ UNCHANGED <<roundVars, result, serverVars>>

CallSortSequenceMeld ==
    /\ call.fn = "sortSequenceMeld" /\ ~call.done
    /\ call' = Returned(sortSequenceMeld(call.args[1], call.args[2]))
    /\ UNCHANGED <<roundVars, result, serverVars>>

LibraryNext ==
    \/ CallValidateSet
    \/ CallValidateSequence
    \/ CallValidateMeld
    \/ CallCanExtendMeld
    \/ CallCalculateMeldScore
    \/ CallCalculateTeamScore
    \/ CallDealCards
    \/ CallSortSequenceMeld

\* One call of one function, next to a round that has not begun.
LibraryInit ==
    /\ constructor(1)
    /\ rooms = NoRooms /\ roomResult = NoRoomResult /\ requests = 0
    /\ playerRooms = NoPlayerRooms
    /\ \/ \E cards \in CardLists :
             \E fn \in {"validateSet", "validateSequence", "validateMeld"} :
                 call = Pending(fn, <<cards>>)
       \/ \E m \in PlayedMelds : \E cards \in ExtensionLists :
             \/ call = Pending("canExtendMeld", <<m.cards, cards, m>>)
             \/ \E validation \in {canExtendMeld(m.cards, cards, m)} :
                   /\ validation.valid
                   /\ \/ call = Pending("calculateMeldScore",
                                       << <<extendedMeld(m, cards, validation)>> >>)
                      \/ /\ m.type = "sequence"
                         /\ call = Pending("sortSequenceMeld", <<m.cards \o cards, m.suit>>)
       \/ \E m \in PlayedMelds : \E cards \in ExtensionLists :
             /\ m.type = "sequence" /\ Len(SelectSeq(m.cards, isWildCard)) = 1
             /\ \E existing \in wildAnywhere(m.cards) :
                   call = Pending("canExtendMeld", <<existing, cards, m>>)
       \/ \E melds \in listsOver(ScoredMelds, MaxMelds) :
             call = Pending("calculateMeldScore", <<melds>>)
       \/ \E team \in TeamInputs \cup {readmeTeamA, readmeTeamB} :
             call = Pending("calculateTeamScore", <<team>>)
       \/ \E cards \in CardLists : \E validation \in {validateSequence(cards)} :
             /\ validation.valid
             /\ call = Pending("sortSequenceMeld", <<cards, validation.suit>>)
       \/ \E maxPlayers \in {2, 4, 6} : \E deckCount \in 1..MaxDeckCount :
             \E jokersPerDeck \in 0..MaxJokersPerDeck : \E cut \in 0..MaxCut :
                 call = Pending("dealCards", <<maxPlayers, deckCount, jokersPerDeck, cut>>)

LibrarySpec == LibraryInit /\ [][LibraryNext]_vars

(***************************************************************************)
(* Room.js and the server's room map                                       *)
(***************************************************************************)
MaxRoomCodes == 2    \* the codes generateRoomCode can return in the model
MaxRequests == 5     \* the requests the server handles in the model

\* generateRoomCode(): three random digits 1..9; the model draws from the
\* first MaxRoomCodes of them.
RoomCodes == {110 + k : k \in 1..MaxRoomCodes}

\* The connections that call the server: a player id and the nickname sent.
\* s5 is s2's player coming back under a new id.
Connections ==
    { [socketId |-> "s1", nickname |-> "Host"],
      [socketId |-> "s2", nickname |-> "Player2"],
      [socketId |-> "s3", nickname |-> "Player3"],
      [socketId |-> "s4", nickname |-> "Player4"],
      [socketId |-> "s5", nickname |-> "PLAYER2"] }

\* nickname.toLowerCase() of the nicknames in use
toLowerCase(nickname) ==
    CASE nickname = "Host" -> "host"
      [] nickname \in {"Player2", "PLAYER2"} -> "player2"
      [] nickname = "Player3" -> "player3"
      [] nickname = "Player4" -> "player4"

NoGame == [players |-> <<>>, hands |-> <<>>]

\* assignTeam(seat)
assignTeam(maxPlayers, seat) ==
    IF maxPlayers = 2 THEN (IF seat = 0 THEN "A" ELSE "B")
    ELSE IF seat % 2 = 0 THEN "A" ELSE "B"

\* The position of socketId among the entries of room.players, 0 if absent.
playerIndex(room, socketId) ==
    IF \E i \in 1..Len(room.players) : room.players[i].socketId = socketId
    THEN CHOOSE i \in 1..Len(room.players) : room.players[i].socketId = socketId
    ELSE 0

\* addPlayer(socketId, nickname): the room afterwards and what is returned.
\* this.players.set replaces the entry of a socketId that is already a key.
addPlayer(room, socketId, nickname) ==
    IF Len(room.players) >= room.maxPlayers
    THEN [room |-> room, success |-> FALSE, reason |-> "Room is full"]
    ELSE IF room.status # "waiting"
    THEN [room |-> room, success |-> FALSE, reason |-> "Game already in progress"]
    ELSE IF \E i \in 1..Len(room.players) :
                toLowerCase(room.players[i].nickname) = toLowerCase(nickname)
    THEN [room |-> room, success |-> FALSE, reason |-> "Nickname already taken"]
    ELSE [room |-> [room EXCEPT !.players =
                      IF playerIndex(room, socketId) # 0
                      THEN [@ EXCEPT ![playerIndex(room, socketId)] =
                              [socketId |-> socketId, nickname |-> nickname,
                               team |-> assignTeam(room.maxPlayers, Len(room.players)),
                               seat |-> Len(room.players)]]
                      ELSE Append(@, [socketId |-> socketId, nickname |-> nickname,
                                      team |-> assignTeam(room.maxPlayers, Len(room.players)),
                                      seat |-> Len(room.players)])],
          success |-> TRUE, reason |-> "none"]

\* new Room(hostId, hostNickname, hostAvatarId, maxPlayers) with the code drawn
newRoom(code, hostId, hostNickname, maxPlayers) ==
    addPlayer([code |-> code, maxPlayers |-> maxPlayers, players |-> <<>>,
               hostId |-> hostId, status |-> "waiting", game |-> NoGame],
              hostId, hostNickname).room

\* swapPlayerTeam(seat)
swapPlayerTeam(room, seat) ==
    IF room.maxPlayers = 2
    THEN [room |-> room, success |-> FALSE,
          reason |-> "Cannot swap teams in 2-player game"]
    ELSE IF room.status # "waiting"
    THEN [room |-> room, success |-> FALSE,
          reason |-> "Cannot swap teams after game started"]
    ELSE IF ~(\E i \in 1..Len(room.players) : room.players[i].seat = seat)
    THEN [room |-> room, success |-> FALSE, reason |-> "Player not found"]
    ELSE LET target == CHOOSE i \in 1..Len(room.players) :
                          /\ room.players[i].seat = seat
                          /\ \A j \in 1..(i - 1) : room.players[j].seat # seat
         IN [room |-> [room EXCEPT !.players[target].team =
                                       IF @ = "A" THEN "B" ELSE "A"],
             success |-> TRUE, reason |-> "none"]

\* removePlayer(socketId): the entry is deleted; when the host left, the first
\* remaining key becomes the host.
removePlayer(room, socketId) ==
    LET i == playerIndex(room, socketId)
        remaining == removeAt(room.players, i)
    IN IF i = 0 THEN [room |-> room, success |-> FALSE, reason |-> "none"]
       ELSE [room |-> [room EXCEPT
                         !.players = remaining,
                         !.hostId = IF socketId = room.hostId /\ Len(remaining) > 0
                                    THEN remaining[1].socketId ELSE @],
             success |-> TRUE, reason |-> "none"]

canStart(room) == Len(room.players) = room.maxPlayers /\ room.status = "waiting"

\* startGame(), the deck having been shuffled to deck
startGame(room, deck) ==
    IF ~canStart(room)
    THEN [room |-> room, success |-> FALSE, reason |-> "Cannot start game yet"]
    ELSE LET dealt == dealCards(room.maxPlayers, deck)
         IN [room |-> [room EXCEPT
                         !.status = "playing",
                         !.game = [players |-> room.players,
                                   hands |-> [i \in 1..Len(room.players) |->
                                                [socketId |-> room.players[i].socketId,
                                                 cards |-> dealt.hands[i]]]]],
             success |-> TRUE, reason |-> "none"]

\* What the server answers to a request that reached the room
RoomResult(op, code, outcome) ==
    [op |-> op, code |-> code, success |-> outcome.success, reason |-> outcome.reason]

\* rooms.set(code, room)
setRoom(code, room) ==
    [c \in DOMAIN rooms \cup {code} |-> IF c = code THEN room ELSE rooms[c]]

\* rooms.delete(code)
deleteRoom(code) == [c \in DOMAIN rooms \ {code} |-> rooms[c]]

\* The server handles one more request.
Handled ==
    /\ requests < MaxRequests
    /\ requests' = requests + 1
    /\ UNCHANGED <<roundVars, result, call>>

\* What a request answers before it reaches the room: the player's room is
\* looked up with getPlayerRoom, then in the room map, and only the host may ask.
hostRequest(socketId, what) ==
    IF playerRooms[socketId] = 0 THEN "Not in a room"
    ELSE IF playerRooms[socketId] \notin DOMAIN rooms THEN "Room not found"
    ELSE IF rooms[playerRooms[socketId]].hostId # socketId THEN what
    ELSE "none"

Refused(op, code, reason) ==
    /\ roomResult' = [op |-> op, code |-> code, success |-> FALSE, reason |-> reason]
    /\ UNCHANGED <<rooms, playerRooms>>

\* POST /api/room/create
CreateRoom ==
    \E c \in Connections : \E maxPlayers \in {2, 4} : \E code \in RoomCodes :
        /\ rooms' = setRoom(code, newRoom(code, c.socketId, c.nickname, maxPlayers))
        /\ playerRooms' = [playerRooms EXCEPT ![c.socketId] = code]
        /\ roomResult' = [op |-> "createRoom", code |-> code, success |-> TRUE,
                          reason |-> "none"]
        /\ Handled

\* POST /api/room/join by connection c with room code code
join(c, code) ==
        /\ Handled
        /\ IF code \notin DOMAIN rooms
           THEN Refused("addPlayer", code, "Room not found")
           ELSE \E outcome \in {addPlayer(rooms[code], c.socketId, c.nickname)} :
                   /\ rooms' = setRoom(code, outcome.room)
                   /\ roomResult' = RoomResult("addPlayer", code, outcome)
                   /\ playerRooms' = IF outcome.success
                                     THEN [playerRooms EXCEPT ![c.socketId] = code]
                                     ELSE playerRooms

AddPlayer == \E c \in Connections : \E code \in RoomCodes : join(c, code)

\* POST /api/room/swap-team
SwapPlayerTeam ==
    \E c \in Connections : \E seat \in 0..3 :
        /\ Handled
        /\ IF hostRequest(c.socketId, "Only host can swap teams") # "none"
           THEN Refused("swapPlayerTeam", playerRooms[c.socketId],
                        hostRequest(c.socketId, "Only host can swap teams"))
           ELSE \E code \in {playerRooms[c.socketId]} :
                \E outcome \in {swapPlayerTeam(rooms[code], seat)} :
                   /\ rooms' = setRoom(code, outcome.room)
                   /\ roomResult' = RoomResult("swapPlayerTeam", code, outcome)
                   /\ UNCHANGED playerRooms

\* The connection c of a player closes: removePlayer and leaveRoom, and the
\* room is deleted when it is empty.
close(c) ==
        /\ Handled
        /\ IF playerRooms[c.socketId] = 0 \/ playerRooms[c.socketId] \notin DOMAIN rooms
           THEN Refused("removePlayer", playerRooms[c.socketId], "none")
           ELSE \E code \in {playerRooms[c.socketId]} :
                \E outcome \in {removePlayer(rooms[code], c.socketId)} :
                   /\ rooms' = IF Len(outcome.room.players) = 0 THEN deleteRoom(code)
                               ELSE setRoom(code, outcome.room)
                   /\ roomResult' = RoomResult("removePlayer", code, outcome)
                   /\ playerRooms' = [playerRooms EXCEPT ![c.socketId] = 0]

RemovePlayer == \E c \in Connections : close(c)

\* POST /api/game/start
StartGame ==
    \E c \in Connections : \E cut \in {0, MaxCut} :
        /\ Handled
        /\ IF hostRequest(c.socketId, "Only host can start the game") # "none"
           THEN Refused("startGame", playerRooms[c.socketId],
                        hostRequest(c.socketId, "Only host can start the game"))
           ELSE \E code \in {playerRooms[c.socketId]} :
                \E outcome \in {startGame(rooms[code], shuffle(createDeck, cut))} :
                   /\ rooms' = setRoom(code, outcome.room)
                   /\ roomResult' = RoomResult("startGame", code, outcome)
                   /\ UNCHANGED playerRooms

RoomNext == CreateRoom \/ AddPlayer \/ SwapPlayerTeam \/ RemovePlayer \/ StartGame

RoomInit ==
    /\ constructor(1)
    /\ call = NoCall /\ rooms = NoRooms /\ roomResult = NoRoomResult /\ requests = 0
    /\ playerRooms = NoPlayerRooms

RoomSpec == RoomInit /\ [][RoomNext]_vars

(***************************************************************************)
(* Properties of the round                                                 *)
(***************************************************************************)
RECURSIVE flatten(_)
flatten(ss) == IF ss = <<>> THEN <<>> ELSE ss[1] \o flatten(Tail(ss))

meldCards(teamId) ==
    flatten([k \in 1..Len(teams[teamId].melds) |-> teams[teamId].melds[k].cards])

\* Every card of every container: hands, draw pile, discard pile, reserve
\* piles and team melds.
allCards ==
    flatten([i \in 1..Len(players) |-> hands[players[i].socketId]])
    \o drawPile \o discardPile \o flatten(pozzetti)
    \o meldCards("A") \o meldCards("B")

occurrences(c) == Cardinality({k \in 1..Len(allCards) : allCards[k] = c})

wildCount(cards) == Len(SelectSeq(cards, isWildCard))

allMelds == {teams[t].melds[k] : <<t, k>> \in
               {tk \in TeamIds \X (1..meldSeq) : tk[2] <= Len(teams[tk[1]].melds)}}

drawOps == {"drawFromPile", "takeDiscardPile"}
meldOps == {"playMeld", "extendMeld"}
afterDrawOps == {"playMeld", "extendMeld", "replaceWildInMeld", "discard"}

\* C1: a dealt card is in exactly one container, once: the deal puts every
\* card in one place, and no step changes how often a card occurs in the
\* hands, piles and melds taken together.
C1_CardConservation ==
    [][\A c \in CardIds : occurrences(c)' = occurrences(c)]_vars

\* C2: a call that returns success = false leaves the round as it was.
C2_FailureLeavesRoundUnchanged ==
    [][result'.success = FALSE => UNCHANGED roundVars]_vars

\* C2 (witness): drawFromPile was just refused on an empty draw pile.
C2_Witness ==
    /\ result.op = "drawFromPile" /\ ~result.success
    /\ result.reason = "Draw pile is empty"
    /\ drawPile = <<>>

\* C3: a call by a player other than players[currentPlayerIndex] never
\* succeeds, and is refused with 'Not your turn', in every phase.
C3_OnlyCurrentPlayerActs ==
    [][result'.player # players[currentPlayerIndex + 1].socketId
         => ~result'.success /\ result'.reason = "Not your turn"]_vars

\* C3 (witness): a discard by the player who is not on turn was refused while
\* the round was in the meld phase.
C3_Witness ==
    /\ result.op = "discard" /\ result.reason = "Not your turn"
    /\ result.player # players[currentPlayerIndex + 1].socketId
    /\ currentPhase = "meld"

\* C4: a draw succeeds only in the draw phase and ends it; melds, wild
\* replacements and discards succeed only after it; the round leaves the draw
\* phase only by a successful draw and comes back to it only by a successful
\* discard, which is also the only way a turn ends.
C4_OneDrawPerTurn ==
    [][/\ (result'.success /\ result'.op \in drawOps)
            => currentPhase = "draw" /\ currentPhase' = "meld"
       /\ (result'.success /\ result'.op \in afterDrawOps) => currentPhase = "meld"
       /\ (currentPhase = "draw" /\ currentPhase' # "draw")
            => result'.success /\ result'.op \in drawOps
       /\ (currentPhase # "draw" /\ currentPhase' = "draw")
            => result'.success /\ result'.op = "discard"
       /\ (turnCount' # turnCount \/ currentPlayerIndex' # currentPlayerIndex)
            => currentPhase' = "draw" /\ result'.success /\ result'.op = "discard"
      ]_vars

\* C4 (witness): a discard has passed the turn and the next player is in the
\* draw phase.
C4_Witness ==
    /\ result.op = "discard" /\ result.success
    /\ currentPhase = "draw" /\ turnCount = 1

C6_MeldSizeAndWilds ==
    \A m \in allMelds :
        /\ 3 <= Len(m.cards) /\ Len(m.cards) <= 7
        /\ wildCount(m.cards) <= 1

\* C7: a meld that holds one wild card never gains another by an extension.
C7_NoSecondWild ==
    [][\A t \in TeamIds : \A k \in 1..Len(teams[t].melds) :
          (result'.op = "extendMeld" /\ wildCount(teams[t].melds[k].cards) = 1)
            => wildCount(teams'[t].melds[k].cards) <= 1]_vars

\* C8: a successful playMeld that empties the hand when both reserve piles
\* have been claimed ends the round.
C8_EmptyHandEndsRound ==
    (/\ result.op = "playMeld" /\ result.success
     /\ hands[result.player] = <<>>
     /\ \A i \in 1..Len(pozzetti) : pozzetti[i] = <<>>)
    => isGameOver /\ teams[teamOf(result.player)].wentOut

C10_OnePozzettoPerTeam ==
    \A t \in TeamIds : teams[t].pozzettoCount <= 1

\* The input endGame gives calculateTeamScore for a team.
teamInput(team) ==
    [melds |-> teams[team].melds,
     hands |-> [k \in 1..Len(playerIdsOf(team)) |-> hands[playerIdsOf(team)[k]]],
     pozzettoCount |-> teams[team].pozzettoCount,
     wentOut |-> teams[team].wentOut]

\* C11: when a discard closes the round, the winner in the discard's result
\* and the winner getGameResult() reports are both the closing player's team.
C11_ClosingTeamWins ==
    (result.op = "discard" /\ result.success /\ result.gameOver)
    => /\ result.winner = teamOf(result.player)
       /\ getGameResult.winner = teamOf(result.player)

returned(fn) == call.done /\ call.fn = fn

cardsOfMelds(melds) == flatten([k \in 1..Len(melds) |-> melds[k].cards])

burracosOf(melds, category) ==
    {k \in 1..Len(melds) : melds[k].isBurraco /\ burracoCategory(melds[k]) = category}

C14_OneCategoryPerBurraco ==
    returned("calculateMeldScore") =>
        LET melds == call.args[1]
            out == call.out
        IN /\ out.sameRankBurracos + out.cleanBurracos + out.dirtyBurracos
                = Cardinality({k \in 1..Len(melds) : melds[k].isBurraco})
           /\ out.score = calculateCardsValue(cardsOfMelds(melds))
                          + SAME_RANK_BURRACO * out.sameRankBurracos
                          + CLEAN_BURRACO * out.cleanBurracos
                          + DIRTY_BURRACO * out.dirtyBurracos

\* C14 (witness): two burracos of different categories have been scored.
C14_Witness ==
    /\ returned("calculateMeldScore")
    /\ Len(call.args[1]) = 2
    /\ call.args[1][1].isBurraco /\ call.args[1][2].isBurraco
    /\ call.out.sameRankBurracos = 1
    /\ call.out.cleanBurracos + call.out.dirtyBurracos = 1

\* C15: a set of seven different cards built by playMeld and extendMeld,
\* whose non-wild cards share one rank and which holds the one allowed wild
\* card, is scored as a same-rank burraco and not as a clean or a dirty one.
C15_SameRankBurracoWithWild ==
    ( /\ returned("calculateMeldScore")
      /\ Len(call.args[1]) = 1
      /\ call.args[1][1].type = "set"
      /\ Len(call.args[1][1].cards) = 7
      /\ Cardinality({call.args[1][1].cards[i] : i \in 1..7}) = 7
      /\ wildCount(call.args[1][1].cards) = 1 )
    => /\ call.out.sameRankBurracos = 1
       /\ call.out.cleanBurracos = 0
       /\ call.out.dirtyBurracos = 0

dealtCount(dealt) ==
    Len(flatten(dealt.hands)) + Len(flatten(dealt.pozzetti))
    + Len(dealt.drawPile) + Len(dealt.discardPile)

\* C16: after dealing for a room configured with deckCount decks and
\* jokersPerDeck jokers, the hands, the two reserve piles, the draw pile and
\* the discard pile hold deckCount * (52 + jokersPerDeck) cards together.
C16_DealtCardCount ==
    returned("dealCards") =>
        dealtCount(call.out) = call.args[2] * (52 + call.args[3])

naturalsOf(cards) == SelectSeq(cards, isNatural)

sameRank(cards) ==
    \A i, j \in 1..Len(cards) : rankOf(cards[i]) = rankOf(cards[j])

\* C17: validateSet accepts exactly the lists of 3 to 7 cards with at most one
\* wild card and at least one other card whose non-wild cards share one rank;
\* the result then carries that rank, isClean says that there is no wild
\* card, and isBurraco that there are at least 7 cards.
C17_ValidateSet ==
    returned("validateSet") =>
        LET cards == call.args[1]
            naturals == naturalsOf(cards)
        IN /\ call.out.valid <=>
                  /\ 3 <= Len(cards) /\ Len(cards) <= 7
                  /\ wildCount(cards) <= 1
                  /\ Len(naturals) >= 1
                  /\ sameRank(naturals)
           /\ call.out.valid =>
                  /\ call.out.rank = rankOf(naturals[1])
                  /\ call.out.isClean <=> (wildCount(cards) = 0)
                  /\ call.out.isBurraco <=> (Len(cards) >= 7)

\* C17 (witness): a dirty set of seven cards has been accepted.
C17_Witness ==
    /\ returned("validateSet")
    /\ call.out.valid /\ call.out.isBurraco /\ ~call.out.isClean

rankIndexes(cards) == {getRankIndex(rankOf(cards[i])) : i \in 1..Len(cards)}

\* The ranks between the lowest and the highest of the cards that none of the
\* cards has.
missingRanks(cards) ==
    {r \in 0..12 : /\ r \notin rankIndexes(cards)
                   /\ \E lo, hi \in rankIndexes(cards) : lo < r /\ r < hi}

\* C18: for cards without an Ace, validateSequence accepts exactly the lists
\* of 3 to 7 cards with at most one wild card and at least one other card,
\* whose non-wild cards are of one suit, have no rank twice, and leave at most
\* as many ranks missing between them as there are wild cards.
C18_ValidateSequence ==
    ( /\ returned("validateSequence")
      /\ \A i \in 1..Len(call.args[1]) : rankOf(call.args[1][i]) # "A" )
    => LET cards == call.args[1]
           naturals == naturalsOf(cards)
       IN call.out.valid <=>
              /\ 3 <= Len(cards) /\ Len(cards) <= 7
              /\ wildCount(cards) <= 1
              /\ Len(naturals) >= 1
              /\ \A i, j \in 1..Len(naturals) : suitOf(naturals[i]) = suitOf(naturals[j])
              /\ Cardinality(rankIndexes(naturals)) = Len(naturals)
              /\ Cardinality(missingRanks(naturals)) <= wildCount(cards)

\* C18 (witness): 5, wild, 7 of spades has been accepted as a sequence.
C18_Witness ==
    /\ returned("validateSequence")
    /\ call.args[1] = <<3, 17, 5>>
    /\ call.out.valid /\ ~call.out.isClean

\* C19: a new meld of a Queen, a wild card and an Ace of one suit, in any
\* order, is accepted as a dirty sequence, the wild card standing for the King.
C19_QueenWildAce ==
    ( /\ returned("validateMeld")
      /\ Len(call.args[1]) = 3
      /\ {call.args[1][i] : i \in 1..3} = {11, 17, 23} )
    => /\ call.out.valid
       /\ call.out.type = "sequence"
       /\ ~call.out.isClean

hasRankOfSuit(cards, rank, suit) ==
    \E i \in 1..Len(cards) : rankOf(cards[i]) = rank /\ suitOf(cards[i]) = suit

\* K, A and 2 of one suit are among the cards.
wrapsAround(cards) ==
    \E suit \in {SUITS[i] : i \in 1..Len(SUITS)} :
        /\ hasRankOfSuit(cards, "K", suit)
        /\ hasRankOfSuit(cards, "A", suit)
        /\ hasRankOfSuit(cards, "2", suit)

\* C20: no list of cards with K, A and 2 of one suit is a valid sequence,
\* whether validated as a new meld or as the cards of an extended sequence,
\* and 10, J, Q, wild is not extended with an Ace and a 2 together.
C20_AceNotBothEnds ==
    /\ ( (returned("validateSequence") \/ returned("validateMeld"))
         /\ wrapsAround(call.args[1]) )
       => ~(call.out.valid /\ call.out.type = "sequence")
    /\ ( returned("canExtendMeld") /\ call.args[3].type = "sequence"
         /\ wrapsAround(call.args[1] \o call.args[2]) )
       => ~call.out.valid
    /\ ( returned("canExtendMeld") /\ call.args[1] = <<9, 10, 11, 17>>
         /\ hasRankOfSuit(call.args[2], "A", "diamonds")
         /\ hasRankOfSuit(call.args[2], "2", "diamonds") )
       => ~call.out.valid

\* C20 (witness): the extension of 10, J, Q, wild with A and 2 was rejected.
C20_Witness ==
    /\ returned("canExtendMeld")
    /\ call.args[1] = <<9, 10, 11, 17>>
    /\ call.args[2] = <<23, 24>>
    /\ ~call.out.valid

\* C21: sortSequenceMeld is idempotent: for the cards of a valid sequence, in
\* any order, sorting the sorted cards again returns the same order.
C21_SortIdempotent ==
    returned("sortSequenceMeld") =>
        sortSequenceMeld(call.out, call.args[2]) = call.out

\* C21 (witness): a sequence with a wild card was given out of order and has
\* been put in another order.
C21_Witness ==
    /\ returned("sortSequenceMeld")
    /\ wildCount(call.args[1]) = 1
    /\ call.out # call.args[1]

MaxShift == 2   \* the card substitutions tried: every id moved on by 1..MaxShift

\* The card that stands where card c stood when every id is moved on by k.
shifted(c, k) == ((c + k - 1) % Len(Deck)) + 1

\* Round states that differ from gs only in the contents of the hands of the
\* players other than socketId, in the contents or the order of the draw
\* pile, and in the contents of the unclaimed reserve piles.
hiddenVariants(socketId, gs) ==
    LET replaced(cards, k) == [i \in 1..Len(cards) |-> shifted(cards[i], k)]
        reversed(cards) == [i \in 1..Len(cards) |-> cards[Len(cards) + 1 - i]]
    IN {[gs EXCEPT
           !.hands = [q \in PlayerIds |->
                        IF q = socketId THEN gs.hands[q]
                        ELSE replaced(gs.hands[q], k[1])],
           !.drawPile = IF k[2] = 0 THEN reversed(gs.drawPile)
                        ELSE replaced(gs.drawPile, k[2]),
           !.pozzetti = [j \in 1..Len(gs.pozzetti) |-> replaced(gs.pozzetti[j], k[3])]]
        : k \in (0..MaxShift) \X (0..MaxShift) \X (0..MaxShift)}

\* C22: getPlayerView(p) returns p's own hand in full, and returns the same
\* view for round states that differ only in what the other players hold (not
\* in how many cards), in the draw pile's contents or order, or in the
\* contents of unclaimed reserve piles.
C22_ViewHidesOtherHands ==
    \A p \in PlayerIds :
        /\ getPlayerView(p, gameState).hand = hands[p]
        /\ \A other \in hiddenVariants(p, gameState) :
               getPlayerView(p, other) = getPlayerView(p, gameState)

\* C22 (witness): in the meld phase of a round another player holds cards, and
\* the draw pile and a reserve pile hold cards too.
C22_Witness ==
    /\ currentPhase = "meld" /\ result.op = "drawFromPile" /\ result.success
    /\ \E q \in PlayerIds : q # getCurrentPlayerId /\ hands[q] # <<>>
    /\ drawPile # <<>>
    /\ \E j \in 1..Len(pozzetti) : pozzetti[j] # <<>>

\* C23: playMeld fails whenever the cards named are all the cards of the
\* acting player's hand: a player keeps at least one card for the discard.
C23_CannotMeldWholeHand ==
    [][(/\ result'.op = "playMeld"
        /\ hands[result'.player] # <<>>
        /\ Len(result'.cardIds) = Len(hands[result'.player])
        /\ {result'.cardIds[i] : i \in 1..Len(result'.cardIds)}
             = {hands[result'.player][i] : i \in 1..Len(hands[result'.player])})
       => ~result'.success]_vars

\* C24: the scoring engine gives the README's point tables (Joker 50, Ace 20,
\* 2 20, K to 8 10 each, 7 to 3 5 each; clean burraco 200, dirty burraco 100,
\* going out 100, reserve pile 50) and the totals of its worked example:
\* Team A 465 and Team B 265.
C24_ReadmeExample ==
    ( returned("calculateTeamScore") /\ call.args[1] \in {readmeTeamA, readmeTeamB} )
    => /\ call.args[1] = readmeTeamA => call.out.totalScore = 465
       /\ call.args[1] = readmeTeamB => call.out.totalScore = 265
       /\ CARD_VALUES("JOKER") = 50 /\ CARD_VALUES("A") = 20 /\ CARD_VALUES("2") = 20
       /\ \A r \in {"K", "Q", "J", "10", "9", "8"} : CARD_VALUES(r) = 10
       /\ \A r \in {"7", "6", "5", "4", "3"} : CARD_VALUES(r) = 5
       /\ CLEAN_BURRACO = 200 /\ DIRTY_BURRACO = 100
       /\ GOING_OUT = 100 /\ POZZETTO_BONUS = 50

(***************************************************************************)
(* Properties of the rooms                                                 *)
(***************************************************************************)
\* The number of players of room.players on the given team
teamSize(room, team) ==
    Cardinality({i \in 1..Len(room.players) : room.players[i].team = team})

\* The room the last request was about
answeredRoom == rooms[roomResult.code]

\* C25: whenever startGame succeeds, the two teams of the room have the same
\* number of players, maxPlayers/2 each, whatever addPlayer, removePlayer and
\* swapPlayerTeam calls came before in the waiting room.
C25_BalancedTeamsAtStart ==
    (roomResult.op = "startGame" /\ roomResult.success)
        => /\ teamSize(answeredRoom, "A") * 2 = answeredRoom.maxPlayers
           /\ teamSize(answeredRoom, "B") * 2 = answeredRoom.maxPlayers

\* C26: creating a room never yields a code that is already a key of the room
\* map, so every room that was there before is still there, unchanged.
C26_RoomCodesUnique ==
    [][(requests' # requests /\ roomResult'.op = "createRoom")
         => /\ roomResult'.code \notin DOMAIN rooms
            /\ \A code \in DOMAIN rooms : code \in DOMAIN rooms' /\ rooms'[code] = rooms[code]]_vars

\* The seats, teams and nicknames of a roster, in order, without the ids
places(roster) ==
    [i \in 1..Len(roster) |->
        [nickname |-> toLowerCase(roster[i].nickname), team |-> roster[i].team,
         seat |-> roster[i].seat]]

\* The hands of a game in order, without the ids that key them
handCards(game) == [i \in 1..Len(game.hands) |-> game.hands[i].cards]

\* The ids that key the hands of a game
handKeys(game) == {game.hands[i].socketId : i \in 1..Len(game.hands)}

\* C27: a player removed from a room whose game is in progress keeps their
\* place in the room, and an addPlayer with the same nickname (in any case)
\* under a new id then succeeds, keeps the seat and the team, and re-keys the
\* hand of the game to the new id with the same cards.
C27_ReconnectionKeepsPlace ==
    [][/\ \A c \in Connections : \A code \in DOMAIN rooms :
            (/\ close(c)
             /\ playerRooms[c.socketId] = code
             /\ rooms[code].status = "playing")
                => /\ code \in DOMAIN rooms'
                   /\ places(rooms'[code].players) = places(rooms[code].players)
       /\ \A c \in Connections : \A code \in DOMAIN rooms :
            (/\ join(c, code)
             /\ rooms[code].status = "playing"
             /\ playerIndex(rooms[code], c.socketId) = 0
             /\ \E i \in 1..Len(rooms[code].game.players) :
                   /\ toLowerCase(rooms[code].game.players[i].nickname)
                          = toLowerCase(c.nickname)
                   /\ playerIndex(rooms[code], rooms[code].game.players[i].socketId) = 0)
                => /\ roomResult'.success
                   /\ places(rooms'[code].players) = places(rooms'[code].game.players)
                   /\ handCards(rooms'[code].game) = handCards(rooms[code].game)
                   /\ handKeys(rooms'[code].game)
                          = {rooms'[code].players[i].socketId :
                                i \in 1..Len(rooms'[code].players)}]_vars

(***************************************************************************)
(* Properties of the single moves of a round                               *)
(***************************************************************************)
\* C28: a successful takeDiscardPile empties the discard pile, puts its cards,
\* in pile order, in front of the former hand of the current player, leaves the
\* draw pile alone and moves the round to the meld phase.
C28_TakeDiscardPileMovesPile ==
    [][(result'.op = "takeDiscardPile" /\ result'.success)
         => /\ result'.player = getCurrentPlayerId
            /\ discardPile' = <<>>
            /\ hands'[result'.player] = discardPile \o hands[result'.player]
            /\ \A p \in PlayerIds \ {result'.player} : hands'[p] = hands[p]
            /\ drawPile' = drawPile
            /\ currentPhase' = "meld"]_vars

C28_Witness ==
    /\ result.op = "takeDiscardPile" /\ result.success
    /\ discardPile = <<>> /\ currentPhase = "meld"
    /\ Len(hands[result.player]) >= 3
    /\ turnCount > 0

\* C29: when a successful discard empties the hand while a reserve pile still
\* holds cards, the hand becomes that pile's cards, the pile is emptied, the
\* team's count of reserve piles taken grows by one, the round goes on and the
\* turn passes to the next player in the draw phase.
C29_DiscardTakesReservePile ==
    [][(/\ result'.op = "discard" /\ result'.success
        /\ Len(hands[result'.player]) = 1
        /\ \E i \in 1..Len(pozzetti) : pozzetti[i] # <<>>)
         => /\ \E i \in 1..Len(pozzetti) :
                  /\ pozzetti[i] # <<>>
                  /\ hands'[result'.player] = pozzetti[i]
                  /\ pozzetti' = [pozzetti EXCEPT ![i] = <<>>]
            /\ teams'[teamOf(result'.player)].pozzettoCount
                  = teams[teamOf(result'.player)].pozzettoCount + 1
            /\ ~isGameOver' /\ ~result'.gameOver
            /\ currentPlayerIndex' = (currentPlayerIndex + 1) % playerCount
            /\ getCurrentPlayerId' # result'.player
            /\ currentPhase' = "draw"]_vars

C29_Witness ==
    /\ result.op = "discard" /\ result.success /\ result.tookPozzetto
    /\ hands[result.player] # <<>>
    /\ teams[teamOf(result.player)].pozzettoCount > 0
    /\ \E i \in 1..Len(pozzetti) : pozzetti[i] = <<>>
    /\ currentPhase = "draw" /\ ~isGameOver

\* How many entries of the list s are the card id
timesIn(s, id) == Cardinality({i \in 1..Len(s) : s[i] = id})

\* after is before with one out less and one in more, as a collection of cards
swapped(before, after, out, into) ==
    \A id \in CardIds :
        timesIn(after, id) + (IF id = out THEN 1 ELSE 0)
            = timesIn(before, id) + (IF id = into THEN 1 ELSE 0)

\* The call replaceWildInMeld(p, meldId, w, n) names a meld of p's team that is
\* a set, a meld card that is not wild, a card that is not in p's hand or is of
\* another suit than the meld, or cards that make no valid sequence.
badReplacement(p, meldId, w, n) ==
    \E k \in 1..Len(teams[teamOf(p)].melds) :
        LET meld == teams[teamOf(p)].melds[k]
        IN /\ meld.id = meldId
           /\ \/ meld.type = "set"
              \/ w = NoCard
              \/ ~isWildCard(w)
              \/ timesIn(hands[p], n) = 0
              \/ n = NoCard
              \/ suitOf(n) # meld.suit
              \/ ~validateSequence(
                     Append(SelectSeq(meld.cards, LAMBDA c : c # w), n)).valid

\* C30: a successful replaceWildInMeld moves the natural card named from the
\* hand to the meld and the wild card named from the meld to the hand, so both
\* keep their size; the meld then holds no wild card, is a valid sequence on
\* its own and has isClean = TRUE.  The call fails when the meld is a set, the
\* meld card named is not wild, the natural card is not in the hand or is of
\* another suit, or the resulting cards are not a valid sequence.
C30_ReplaceWildSwapsTwoCards ==
    [][/\ (result'.op = "replaceWildInMeld" /\ result'.success)
         => \E k \in 1..Len(teams[teamOf(result'.player)].melds) :
            \E n \in idsFor(hands[result'.player]) \ {NoCard} :
              LET p == result'.player
                  before == teams[teamOf(p)].melds[k]
                  after == teams'[teamOf(p)].melds[k]
              IN /\ isWildCard(result'.card) /\ isNatural(n)
                 /\ swapped(hands[p], hands'[p], n, result'.card)
                 /\ swapped(before.cards, after.cards, result'.card, n)
                 /\ Len(hands'[p]) = Len(hands[p])
                 /\ Len(after.cards) = Len(before.cards)
                 /\ \A i \in 1..Len(after.cards) : ~isWildCard(after.cards[i])
                 /\ validateSequence(after.cards).valid
                 /\ after.isClean
                 /\ \A j \in 1..Len(teams[teamOf(p)].melds) :
                       j # k => teams'[teamOf(p)].melds[j] = teams[teamOf(p)].melds[j]
       /\ result'.op = "replaceWildInMeld"
            => \A m \in meldIds : \A w \in meldCardIds(m) :
               \A n \in idsFor(hands[result'.player]) :
                  (/\ badReplacement(result'.player, m, w, n)
                   /\ replaceWildInMeld(result'.player, m, w, n))
                     => ~result'.success]_vars

\* C31: in every state of a round the flags stored with each meld of each team
\* agree with its cards: isBurraco exactly when it has 7 or more cards, isClean
\* exactly when none of its cards is wild.
C31_MeldFlagsAgreeWithCards ==
    \A t \in TeamIds : \A k \in 1..Len(teams[t].melds) :
        LET meld == teams[t].melds[k]
        IN /\ meld.isBurraco <=> Len(meld.cards) >= 7
           /\ meld.isClean <=> (\A i \in 1..Len(meld.cards) : ~isWildCard(meld.cards[i]))

C31_Witness ==
    /\ result.op = "extendMeld" /\ result.success
    /\ \E t \in TeamIds : \E k \in 1..Len(teams[t].melds) :
          /\ teams[t].melds[k].isBurraco /\ Len(teams[t].melds[k].cards) >= 7
          /\ ~teams[t].melds[k].isClean

\* The positions of the ranks of the cards, the Ace counted above the King
\* when high is TRUE.
rankPositions(cards, high) ==
    {IF rankOf(cards[i]) = "A" /\ high THEN 13 ELSE getRankIndex(rankOf(cards[i])) :
        i \in 1..Len(cards)}

\* The Ace rule: the Ace is high when a natural King is among the cards, or a
\* Queen or a Jack together with a wild card; otherwise it is low.
aceHighByRule(naturals, hasWild) ==
    LET hasRank(r) == \E i \in 1..Len(naturals) : rankOf(naturals[i]) = r
    IN hasRank("A") /\ (hasRank("K") \/ ((hasRank("Q") \/ hasRank("J")) /\ hasWild))

\* The ranks missing between the lowest and the highest of the natural cards
unfilledRanks(naturals, hasWild) ==
    LET positions == rankPositions(naturals, aceHighByRule(naturals, hasWild))
    IN {r \in 0..13 : r \notin positions /\ \E lo, hi \in positions : lo < r /\ r < hi}

\* The extension of a sequence with one wild card by natural cards, where the
\* natural cards of the union are of the meld's suit, have no rank twice and
\* leave at most one rank missing.
fillableExtension(existing, newCards, meldInfo) ==
    LET naturals == naturalsOf(existing \o newCards)
    IN /\ meldInfo.type = "sequence"
       /\ wildCount(existing) = 1 /\ wildCount(newCards) = 0 /\ newCards # <<>>
       /\ \A i \in 1..Len(naturals) : suitOf(naturals[i]) = meldInfo.suit
       /\ \A i, j \in 1..Len(naturals) :
             rankOf(naturals[i]) = rankOf(naturals[j]) => i = j
       /\ Cardinality(unfilledRanks(naturals, TRUE)) <= 1

\* C32: canExtendMeld accepts the extension of a sequence whenever the natural
\* cards of the union share the suit, have no rank twice and leave at most one
\* rank missing for the meld's one wild card to fill under the Ace rule,
\* wherever the wild card stood in the existing meld; so J-Q-K-WILD plus A,
\* J-Q-K-WILD plus 10, WILD-J-Q-K plus 9, J-Q-K-WILD plus 10 and A, and
\* 10-J-Q-WILD plus A are accepted.
C32_ExtensionRepositionsWild ==
    (returned("canExtendMeld")
       /\ fillableExtension(call.args[1], call.args[2], call.args[3]))
        => call.out.valid

\* C32 (witness): WILD-J-Q-K of diamonds plus the 9 has been accepted.
C32_Witness ==
    /\ returned("canExtendMeld") /\ call.out.valid
    /\ fillableExtension(call.args[1], call.args[2], call.args[3])
    /\ call.args[1] = <<17, 10, 11, 7>>
    /\ call.args[2] = <<8>>

\* C33: canExtendMeld accepts an extension only if the existing and the added
\* cards together are accepted by the validator of the meld's type:
\* validateSet for a set, validateSequence for a sequence.
C33_ExtensionAgreesWithValidation ==
    (returned("canExtendMeld") /\ call.out.valid)
        => IF call.args[3].type = "set"
           THEN validateSet(call.args[1] \o call.args[2]).valid
           ELSE validateSequence(call.args[1] \o call.args[2]).valid

\* The cards are a run of one suit with one wild card: at least two natural
\* cards, of one suit, no rank twice, at most one rank missing between them.
runWithOneWild(cards) ==
    LET naturals == naturalsOf(cards)
    IN /\ Len(cards) >= 3 /\ Len(cards) <= 7
       /\ wildCount(cards) = 1
       /\ \A i, j \in 1..Len(naturals) :
             /\ suitOf(naturals[i]) = suitOf(naturals[j])
             /\ rankOf(naturals[i]) = rankOf(naturals[j]) => i = j
       /\ Cardinality(unfilledRanks(naturals, TRUE)) <= 1

\* The place of a natural card in its run, the Ace above the King when high
effectiveRank(card, high) ==
    IF rankOf(card) = "A" /\ high THEN 13 ELSE getRankIndex(rankOf(card))

\* C34: for a valid sequence with one wild card, sortSequenceMeld returns the
\* same cards with the natural cards in increasing effective rank (the Ace
\* last when it is high) and the wild card in the one gap between them when
\* there is one (10 J Q WILD A; 9 WILD J Q K), otherwise after the highest
\* natural card (10 J Q K WILD), except that it comes first when the run ends
\* in a high Ace (WILD J Q K A; WILD 10 J Q K A).
C34_SortPlacesWild ==
    (returned("sortSequenceMeld") /\ runWithOneWild(call.args[1]))
        => LET cards == call.args[1]
               sorted == call.out
               high == aceHighByRule(naturalsOf(cards), TRUE)
               gaps == unfilledRanks(naturalsOf(cards), TRUE)
               w == CHOOSE i \in 1..Len(sorted) : isWildCard(sorted[i])
               ordered == naturalsOf(sorted)
           IN /\ Len(sorted) = Len(cards)
              /\ \A id \in CardIds : timesIn(sorted, id) = timesIn(cards, id)
              /\ \A i \in 1..(Len(ordered) - 1) :
                    effectiveRank(ordered[i], high) < effectiveRank(ordered[i + 1], high)
              /\ IF gaps # {}
                 THEN /\ 1 < w /\ w < Len(sorted)
                      /\ \A r \in gaps :
                            /\ effectiveRank(sorted[w - 1], high) < r
                            /\ r < effectiveRank(sorted[w + 1], high)
                 ELSE IF high THEN w = 1
                 ELSE w = Len(sorted)

\* C34 (witness): 10, J, Q, wild and A of diamonds came back as 10 J Q WILD A.
C34_Witness ==
    /\ returned("sortSequenceMeld") /\ runWithOneWild(call.args[1])
    /\ call.args[1] = <<9, 10, 11, 17, 23>>
    /\ call.out = <<9, 10, 11, 17, 23>>

\* C35: whenever the round is not over and the phase is meld, the hand of the
\* current player is not empty, so that the player can end the turn with a
\* discard.
C35_CanAlwaysDiscard ==
    (~isGameOver /\ currentPhase = "meld") => hands[getCurrentPlayerId] # <<>>

\* C36: in a round whose deal put a card on the discard pile, whenever the
\* round is not over and the phase is draw the discard pile is not empty, so
\* that the current player can take it even when the draw pile is exhausted.
C36_DiscardPileToTake ==
    (discardPile # <<>>)
        => []((~isGameOver /\ currentPhase = "draw") => discardPile # <<>>)

\* C36 (witness): a turn has been played, the draw pile is exhausted and the
\* next player is to draw.
C36_Witness ==
    /\ ~isGameOver /\ currentPhase = "draw" /\ turnCount > 0
    /\ drawPile = <<>> /\ discardPile # <<>>
    /\ result.op = "discard" /\ result.success
    /\ Len(discardPile) >= 2

\* C37: the game-over state is absorbing: once isGameOver is set, no call
\* changes a hand, a pile, a reserve pile, a team's melds or flags, the final
\* scores, the winner, currentPlayerIndex or turnCount, and the round stays
\* over.
C37_GameOverAbsorbing ==
    [][isGameOver =>
          /\ isGameOver'
          /\ UNCHANGED <<hands, drawPile, discardPile, pozzetti, teams,
                         scores, winner, currentPlayerIndex, turnCount>>]_vars

\* C37 (witness): the round is over and a later call was answered with
\* success.
C37_Witness ==
    /\ isGameOver /\ winner # "null"
    /\ result.op = "extendMeld" /\ result.success

\* The ids of the melds on the table of team t.
meldIdsOf(t) == {teams[t].melds[k].id : k \in 1..Len(teams[t].melds)}

\* C38: a successful playMeld, extendMeld or replaceWildInMeld leaves the other
\* team's melds and flags, every other player's hand, the draw pile, the
\* discard pile, currentPlayerIndex and currentPhase as they were, touches a
\* reserve pile and the acting team's reserve flags only when it hands a
\* reserve pile to the emptied hand, and an extendMeld or replaceWildInMeld of
\* the player to move that names a meld of the other team is answered
\* 'Meld not found'.
C38_MeldTouchesOwnSideOnly ==
    [][/\ (result'.op \in {"playMeld", "extendMeld", "replaceWildInMeld"}
           /\ result'.success)
          => LET p == result'.player
                 own == teamOf(p)
                 flags(t) == <<t.tookPozzetto, t.wentOut, t.pozzettoIndex,
                               t.pozzettoCount>>
             IN /\ \A t \in TeamIds \ {own} : teams'[t] = teams[t]
                /\ \A q \in PlayerIds \ {p} : hands'[q] = hands[q]
                /\ UNCHANGED <<drawPile, discardPile, currentPlayerIndex,
                               currentPhase, turnCount, isGameOver, winner,
                               scores>>
                /\ IF result'.tookPozzetto
                   THEN \E i \in 1..Len(pozzetti) :
                           /\ pozzetti[i] # <<>>
                           /\ pozzetti' = [pozzetti EXCEPT ![i] = <<>>]
                           /\ hands'[p] = pozzetti[i]
                   ELSE /\ pozzetti' = pozzetti
                        /\ flags(teams'[own]) = flags(teams[own])
       /\ currentPhase = "meld"
          => LET p == getCurrentPlayerId
             IN \A m \in UNION {meldIdsOf(t) : t \in TeamIds \ {teamOf(p)}} :
                   /\ result'.op = "extendMeld"
                      => \A ids \in {<<>>, result'.cardIds} :
                            extendMeld(p, m, ids)
                                => result'.reason = "Meld not found"
                   /\ result'.op = "replaceWildInMeld"
                      => \A w \in meldCardIds(m) : \A n \in idsFor(hands[p]) :
                            replaceWildInMeld(p, m, w, n)
                                => result'.reason = "Meld not found"]_vars

\* C38 (witness): the second player has melded with a meld of the other team
\* on the table, and has then been answered 'Meld not found'.
C38_Witness ==
    /\ result.op = "extendMeld" /\ ~result.success
    /\ result.reason = "Meld not found"
    /\ teamOf(result.player) = "B"
    /\ teams["A"].melds # <<>> /\ teams["B"].melds # <<>>
    /\ hands[result.player] # <<>>

\* C39: a player id is in at most one room at a time: whenever the player map
\* of a room holds a player id, the session of that player records the code
\* of that room.
C39_OneRoomPerPlayer ==
    \A code \in DOMAIN rooms : \A i \in 1..Len(rooms[code].players) :
        playerRooms[rooms[code].players[i].socketId] = code

====
